---- MODULE Spec2Model ----
(***************************************************************************)
(* reactivesocket-js: the client connection and its streams, the           *)
(* ReEnqueueFilter, the DrainingReactiveSocket, the aperture LoadBalancer  *)
(* and the TcpLoadBalancer, each as a state machine with one action per    *)
(* handler.  Every component has its own specification (SpecConn,          *)
(* SpecDrain, SpecLB, SpecTcp); the variables of the other components stay *)
(* at their initial value.                                                 *)
(***************************************************************************)
EXTENDS Integers, Sequences, FiniteSets, TLC

\* ------------------------------------------------------------------ bounds
\* requests (stream ids 2, 4, ...) one connection issues in a run
MaxStreams == 2
\* proxy streams the ReEnqueueFilter hands out in a run
MaxProxies == 2
\* requests one connection issues in a run in which requests are re-enqueued
MaxAttempts == 4
\* requests made through one DrainingReactiveSocket in a run
MaxDrainReqs == 2
\* calls of close by the owner of one DrainingReactiveSocket in a run
MaxDrainCloses == 2
\* factories the factory source knows
MaxFactories == 2
\* 'add' events and 'remove' events of the factory source in a run
MaxAdds == 2
MaxRemoves == 1
\* 'add' events in a run of the LoadBalancer that starts above its minimum
MaxLateAdds == 3
\* sockets the factories build in a run
MaxSockets == 2
\* requests of one LoadBalancer that are outstanding at a time
MaxOutstandings == 3
\* calls of FAILING_STREAM.on in a run, and those of them the caller makes
MaxRegs == 3
MaxUserRegs == 2
\* hosts discovery knows, the largest opts.size, TcpConnections made and calls
\* of updateHosts in a run of one TcpLoadBalancer
MaxHosts == 2
MaxSize == 2
MaxConns == 3
MaxUpdates == 3
\* the clock of the lease runs from 0 to MaxClock
MaxClock == 3
\* the budgets and the ttls of the LEASE frames received
MaxBudget == 2
MaxTtl == 2
\* KEEPALIVE frames the ticker sends
MaxKeepalives == 2
\* SETUP frames a server connection receives, LEASE frames its ticker sends
MaxSetups == 3
MaxLeases == 2
\* window sizes of a SlidingMedian, values and number of inserts
MaxWindow == 3
MaxValue == 2
MaxInserts == 7
\* frames of a byte stream, and bytes of a frame beyond its header
MaxFrames == 3
MaxBody == 1
\* RESPONSE frames received for one stream id, and the values of their data
MaxFragments == 3
MaxData == 2
\* the clock of a FailureAccrualSocket, in half-lives, and the calls of its
\* availability() in a run
MaxAccrualClock == 4
MaxPolls == 3
\* the longest list p3c samples from
MaxList == 5

\* ------------------------------------------------------------ connection
VARIABLES
    latest,     \* Connection._streams.latest
    streams,    \* Connection._streams.streams: id -> "none" | "orig" | "ghost"
    timer,      \* RSStream._timer of the stream request() made for an id
    expired,    \* RSStream._expired
    errL,       \* whether the caller listens to 'error' on the stream
    events,     \* what each request stream has emitted, in order
    sent,       \* the frames handed to Connection.send, by stream id
    leaseN,     \* Connection._leaseNumberOfRequests
    tclosed,    \* the transport has emitted 'close'
    terr,       \* transportStreamErr of the constructor's closure
    atClose,    \* the ids in the stream table when the transport closed
    \* ReEnqueueFilter over the connection
    owner,      \* stream id -> the proxy whose retry hooks are on the stream
    bridged,    \* stream id -> the proxy's bridge handlers are attached
    updHook,    \* stream id -> updateFn listens to 'response'
    pinner,     \* proxy -> BridgeStream._innerStream
    pfirst,     \* proxy -> innerStream of the request closure
    pn,         \* proxy -> n of the request closure
    plog,       \* proxy -> what the proxy stream has emitted
    nproxy,     \* proxies handed out
    rate,       \* reactivesocket._reenqueueRate, "zero" or "positive"
    zeros       \* calls of _reenqueueRate.insert(0.0) so far

VARIABLES
    idBase,     \* Connection._streams.latest when the connection is first seen
    idErr,      \* a request threw in _getNewStream
    optsLease,  \* opts.lease of the constructor
    _leaseExpirationDate,
    now,        \* Date.now()
    ended,      \* Connection.close has called _transportStream.end()
    _timers     \* the keepalive ticker of _timers: "armed" | "cleared"

\* the payload of the responses a client connection receives
VARIABLES
    rcvd,       \* stream id -> the RESPONSE frames received for it, in order
    _data,      \* stream id -> RSStream._data.response.data of the stream
                \* request() made, the list of the data joined so far
    seen        \* stream id -> getResponse().data when 'response' was emitted

fragVars == <<rcvd, _data, seen>>

\* the factory source of a LoadBalancer
VARIABLES
    gone,       \* the factories the source has removed and not added since
    adds        \* factory id -> 'add' events of the source for it: 0, 1 or
                \* 2 for more than one

srcVars == <<gone, adds>>

\* a FailureAccrualSocket; time is counted in half-lives of its Ewma
VARIABLES
    faNow,                  \* what _failureAccrualClock.now() and Date.now() return
    _failureAccrualStamp,   \* reactivesocket._failureAccrualStamp
    _failureAccrualEwma,    \* the Ewma: [ewma: its value in sixteenths,
                            \* stamp: the time of its last update]
    faUpdated,              \* when a sample was last inserted or the Ewma reset
    faPolls,                \* calls of availability() so far
    faSnapped               \* the last availability() call reset the Ewma

faVars == <<faNow, _failureAccrualStamp, _failureAccrualEwma, faUpdated,
            faPolls, faSnapped>>

\* one call of p3c on a list of three objects or more
VARIABLES
    p3n,        \* n, the length of availableObjects
    p3e,        \* e, the rounds of the for loop begun so far
    p3i,        \* <<i1, i2, i3>> of the last round, << >> before the first
    p3break     \* the loop has reached its break

p3cVars == <<p3n, p3e, p3i, p3break>>

\* the streams of the requests a server connection receives
VARIABLES
    rstreams,   \* Connection._streams.streams of the server connection:
                \* stream id -> "none" | "open"
    rstate,     \* stream id -> how far the exchange is
    rsent       \* stream id -> the frames the responder sent on it

respVars == <<rstreams, rstate, rsent>>

clientVars == <<idBase, idErr, optsLease, _leaseExpirationDate, now, ended,
                _timers>>

\* ------------------------------------------------------ server connection
VARIABLES
    _isSetup,
    _version,           \* 0 is null
    _keepalive,         \* 0 is the constructor's default
    _metadataEncoding,  \* "undefined" until a SETUP binds it
    _dataEncoding,
    srvOn,      \* the listener the application put on the connection:
                \* "none" | "error" | "setup-error"
    srvLog,     \* what the connection emitted on SETUP frames, or threw
    srvTimers,  \* lease tickers in _timers
    srvSent,    \* LEASE frames sent
    nsetup      \* SETUP frames received

serverVars == <<_isSetup, _version, _keepalive, _metadataEncoding,
                _dataEncoding, srvOn, srvLog, srvTimers, srvSent, nsetup>>

\* ----------------------------------------------------------- SlidingMedian
VARIABLES
    smSize,     \* SlidingMedian._size
    _buffer,    \* SlidingMedian._buffer: index -> [def, val]
    _from,
    _to,
    inserted    \* the values inserted so far, in order

medianVars == <<smSize, _buffer, _from, _to, inserted>>

\* ----------------------------------------------------------- FramingStream
VARIABLES
    wire,       \* the bytes the transport delivers, all frames of the stream
    frames,     \* the frames the bytes were made of
    delivered,  \* bytes of wire handed to _transform so far
    fsBuffer,   \* FramingStream._buffer
    buffered,   \* _buffer is not null
    _frameLength,
    _pos,
    pushed,     \* the buffers given to push, in order
    failed      \* the assert of _transform failed

framingVars == <<wire, frames, delivered, fsBuffer, buffered, _frameLength,
                 _pos, pushed, failed>>

connVars == <<latest, streams, timer, expired, errL, events, sent, leaseN,
              tclosed, terr, atClose, owner, bridged, updHook, pinner, pfirst,
              pn, plog, nproxy, rate, zeros>>

\* ------------------------------------------------ DrainingReactiveSocket
VARIABLES
    dPendings,  \* reactivesocket._drainingPendings
    dCb,        \* reactivesocket._drainingClosedCb: "null" | "undefined" | "cb"
    dTimerId,   \* reactivesocket._drainingTimerId, 0 when never assigned
    dTimers,    \* the drain timers that are set and neither fired nor cleared
    dTimerN,    \* drain timers created
    dStreams,   \* the streams request() returned: "none" | "live" | "late" | "done"
    dCloseN,    \* calls of the decorated close by the owner
    dInner,     \* calls of underlyingClose
    dWaiting,   \* a close was deferred and underlyingClose has not run since
    dUnder,     \* what underlyingAvailability() returns
    dDeferred,  \* dInner when close was first deferred, -1 before
    dOutside    \* after close was first deferred: a request, or a close at 0 pending

drainVars == <<dPendings, dCb, dTimerId, dTimers, dTimerN, dStreams, dCloseN,
               dInner, dWaiting, dUnder, dDeferred, dOutside>>

\* ----------------------------------------------------------- LoadBalancer
VARIABLES
    _factories,      \* LoadBalancer._factories, a list of factory ids
    _sockets,        \* LoadBalancer._sockets, a list of socket ids
    _pendings,       \* LoadBalancer._pendings
    _outstandings,   \* LoadBalancer._outstandings
    _isReady,        \* LoadBalancer._isReady
    _closed,         \* LoadBalancer._closed
    _targetAperture, \* LoadBalancer._targetAperture
    _minAperture,    \* LoadBalancer._minAperture
    _maxAperture,    \* LoadBalancer._maxAperture
    initialAperture, \* opts.initialAperture || 5, as the constructor set it
    refreshed,       \* _lastApertureRefresh has been set since construction
    _refreshTimer,   \* the interval of _ready is running
    building,        \* factory id -> builds whose socket event is still to come
    built,           \* sockets built so far; the ids are 1..built
    sockFactory,     \* socket id -> weightedSocket.factory
    sockClose,       \* socket id -> the 'close' listener of _addSocket is attached
    sockState,       \* socket id -> "none" | "open" | "closed"
    sockTold,        \* socket id -> the LoadBalancer called close on it
    sockPending,     \* socket id -> requests sent on it that have not terminated
    regs,            \* the calls of FAILING_STREAM.on, in order
    nadd,            \* 'add' events of the factory source
    nremove          \* 'remove' events of the factory source

lbVars == <<_factories, _sockets, _pendings, _outstandings, _isReady, _closed,
            _targetAperture, _minAperture, _maxAperture, initialAperture,
            refreshed, _refreshTimer, building, built, sockFactory, sockClose,
            sockState, sockTold, sockPending, regs, nadd, nremove>>

\* -------------------------------------------------------- TcpLoadBalancer
VARIABLES
    _hosts,      \* TcpLoadBalancer._hosts, the set of its host ids
    updated,     \* updateHosts has replaced the _hosts of the constructor
    _size,       \* TcpLoadBalancer._size
    free,        \* _connections.free: host -> "none" | the object kept for it
    connecting,  \* _connections.connecting: host -> 0 (no key) | connection
    connected,   \* _connections.connected: host -> -1 (no key) |
                 \* 0 (key with undefined) | connection
    conns,       \* the TcpConnections made so far, by id
    nconn,       \* TcpConnections made so far
    tcpReady,    \* TcpLoadBalancer._ready
    tcpConnected, \* TcpLoadBalancer._connected
    tcpClosed,   \* TcpLoadBalancer._closed
    tcpEmitted,  \* the pool has emitted 'close'
    nupdate,     \* calls of updateHosts
    got          \* the outcome of the last getConnection()

tcpVars == <<_hosts, updated, _size, free, connecting, connected, conns, nconn,
             tcpReady, tcpConnected, tcpClosed, tcpEmitted, nupdate, got>>

\* the variables of the components a connection action leaves alone
extraVars == <<fragVars, respVars, srcVars, faVars, p3cVars>>
notFrag == <<drainVars, lbVars, tcpVars, serverVars, medianVars, framingVars,
             respVars, srcVars, faVars, p3cVars>>
notSource == <<connVars, clientVars, drainVars, tcpVars, serverVars,
               medianVars, framingVars, fragVars, respVars, faVars,
               p3cVars>>
\* the variables an action of the responder leaves alone
baseVars == <<connVars, clientVars, drainVars, lbVars, tcpVars, serverVars,
              medianVars, framingVars>>
notResp == <<baseVars, fragVars, srcVars, faVars, p3cVars>>
notAccrual == <<baseVars, fragVars, respVars, srcVars, p3cVars>>
notP3c == <<baseVars, fragVars, respVars, srcVars, faVars>>
restVars == <<serverVars, medianVars, framingVars, extraVars>>
notConn == <<drainVars, lbVars, tcpVars, restVars>>
notDrain == <<connVars, clientVars, lbVars, tcpVars, restVars>>
notLB == <<connVars, clientVars, drainVars, tcpVars, restVars>>
notTcp == <<connVars, clientVars, drainVars, lbVars, restVars>>

Max(a, b) == IF a > b THEN a ELSE b
Min(a, b) == IF a < b THEN a ELSE b

ReqIds == {2 * i : i \in 1..MaxStreams}
Ids == {0} \cup ReqIds
\* the stream ids a connection may come to use in any of the runs
Slots == {0} \cup {2 * i : i \in 1..Max(MaxStreams, MaxAttempts)}
Proxies == 1..MaxProxies

ERROR_CODES == {"INVALID_SETUP", "UNSUPPORTED_SETUP", "REJECTED_SETUP",
                "CONNECTION_ERROR", "APPLICATION_ERROR", "REJECTED",
                "CANCELED", "INVALID", "RESERVED"}
\* an error code of a frame that is none of ERROR_CODES
UNKNOWN_CODE == "UNKNOWN"
\* the codes of the ERROR frames the remote sends: one for each way
\* RSStream.setError and the ReEnqueueFilter treat a code
InboundCodes == {"CONNECTION_ERROR", "APPLICATION_ERROR", "REJECTED",
                 UNKNOWN_CODE}

\* values passed to listeners
Obj(k, c, m) == [kind |-> k, errorCode |-> c, message |-> m]
SelfArg == Obj("stream", "undefined", "none")
ErrorFrame(c) == Obj("frame", c, "none")
CancelFrame == Obj("frame", "undefined", "none")
TransportError == Obj("Error", "undefined", "kthxbye")
ClosedError == Obj("Error", "undefined", "transport connection closed")
NoError == Obj("undefined", "undefined", "none")

\* _.pick(frame, 'errorCode', 'metadata', 'data'): a plain object holding only
\* the picked fields; the message of an Error is not among them
Pick(frame) == Obj("object", frame.errorCode, "none")

Ev(n, a) == [name |-> n, arg |-> a]

\* the events BridgeStream forwards from the inner stream to the proxy
BridgedEvents == {"response", "timeout", "setup-error", "application-error",
                  "invalid-error", "reserved-error", "error", "terminate"}
\* the events hookRetry listens to
RetryEvents == {"cancelled-error", "rejected-error", "connection-error"}

maxReEqueue == 3

\* the state of the connection and the filter as one value, so that a handler
\* is the composition of the calls it makes
St == [latest |-> latest, streams |-> streams, timer |-> timer,
       expired |-> expired, errL |-> errL, events |-> events, sent |-> sent,
       leaseN |-> leaseN, owner |-> owner, bridged |-> bridged,
       updHook |-> updHook, pinner |-> pinner, pfirst |-> pfirst, pn |-> pn,
       plog |-> plog, nproxy |-> nproxy, rate |-> rate, zeros |-> zeros,
       thrown |-> FALSE]

Commit(st) ==
    /\ latest' = st.latest
    /\ streams' = st.streams
    /\ timer' = st.timer
    /\ expired' = st.expired
    /\ errL' = st.errL
    /\ events' = st.events
    /\ sent' = st.sent
    /\ leaseN' = st.leaseN
    /\ owner' = st.owner
    /\ bridged' = st.bridged
    /\ updHook' = st.updHook
    /\ pinner' = st.pinner
    /\ pfirst' = st.pfirst
    /\ pn' = st.pn
    /\ plog' = st.plog
    /\ nproxy' = st.nproxy
    /\ rate' = st.rate
    /\ zeros' = st.zeros


\* Connection.send: the frame goes to the serialize stream
send(st, type, id) == [st EXCEPT !.sent[id] = Append(@, type)]

\* Connection._deleteStream
_deleteStream(st, id) == [st EXCEPT !.streams[id] = "none"]

\* clearTimeout(self._timer)
clearTimeout(st, id) ==
    IF st.timer[id] = "armed" THEN [st EXCEPT !.timer[id] = "cleared"] ELSE st

\* MAX_STREAM_ID of the protocol constants
MAX_STREAM_ID == 2147483647

\* the test id > CONSTANTS.MAX_STREAM_ID of _getNewStream, for the id that is
\* idBase + n
ExhaustedNever(n) == FALSE
Exhausted(n) == n > MAX_STREAM_ID - idBase

\* Connection._getNewStream followed by RSStream.startTimeout, the frame and
\* the 'timeout' listener of Connection.request.  The stream ids of the model
\* are counted from idBase.  On exhaustion self._emit, which is no function,
\* is called: the request throws before the stream is made.
NewStream(st, listens) ==
    LET id == st.latest + 2
        s1 == [st EXCEPT !.latest = id,
                         !.streams[id] = "orig",
                         !.timer[id] = "armed",
                         !.expired[id] = FALSE,
                         !.errL[id] = listens,
                         !.events[id] = << >>,
                         !.leaseN = Max(0, @ - 1)]
    IN  IF Exhausted(id) THEN [st EXCEPT !.thrown = TRUE]
        ELSE send(s1, "REQUEST_RESPONSE", id)

\* Ewma.insert and the test rate > 0 of retry, on the sign of the average
EwmaInsert(r, x) == IF x > 0 THEN "positive" ELSE r

\* the 'timeout' listener Connection.request puts on the stream
onTimeoutKeeps(st, id) == st
onTimeout(st, id) == _deleteStream(st, id)

\* BridgeStream.detach, BridgeStream.attach
detach(st, p) == [st EXCEPT !.bridged[st.pinner[p]] = FALSE]
attach(st, p, id) == [st EXCEPT !.pinner[p] = id, !.bridged[id] = TRUE]

\* hookRetry: the three retry listeners of proxy p on the stream
hookRetry(st, p, id) == [st EXCEPT !.owner[id] = p]

\* retry(name, err) of ReEnqueueFilter.request.  q stands for the quotient
\* maxReEnqueueRate / reEnqueueRate rounded up: n < quotient iff n < q.
RetryUnbounded(st, q) == maxReEqueue + 1
RetryBound(st, q) ==
    IF st.rate = "positive" THEN Min(maxReEqueue, q) ELSE maxReEqueue

retry(st, p, name, arg, q) ==
    LET s0 == [st EXCEPT !.updHook[st.pfirst[p]] = FALSE]
        s1 == IF s0.pn[p] < RetryBound(s0, q)
              THEN LET a == detach([s0 EXCEPT !.rate = EwmaInsert(@, 1)], p)
                       b == NewStream(a, FALSE)
                   IN  attach(hookRetry(b, p, b.latest), p, b.latest)
              ELSE [s0 EXCEPT !.plog[p] = Append(@, Ev(name, arg))]
    IN  [s1 EXCEPT !.pn[p] = @ + 1]

\* EventEmitter.emit on the stream request() made for id: the listeners run
\* in the order they were added
bridge(st, id, name, arg) ==
    IF st.bridged[id] /\ name \in BridgedEvents
    THEN [st EXCEPT !.plog[st.owner[id]] = Append(@, Ev(name, arg))]
    ELSE st

emit(st, id, name, arg, q) ==
    LET s1 == IF id = 0 THEN st
              ELSE [st EXCEPT !.events[id] = Append(@, Ev(name, arg))]
        s2 == IF name = "timeout" THEN onTimeout(s1, id) ELSE s1
        s3 == bridge(s2, id, name, arg)
        s4 == IF name = "response" /\ s3.updHook[id]
              THEN [s3 EXCEPT !.rate = EwmaInsert(@, 0), !.zeros = @ + 1]
              ELSE s3
    IN  IF s4.owner[id] # 0 /\ name \in RetryEvents
        THEN retry(s4, s4.owner[id], name, arg, q)
        ELSE s4

\* whether emit('error') finds a listener on the stream
ListensError(st, id) == st.errL[id] \/ st.bridged[id]

\* the events of RSStream.startTimeout's callback
onTimeoutEvents(st, id, q) ==
    emit(emit(st, id, "timeout", SelfArg, q), id, "terminate", SelfArg, q)

\* RSStream.startTimeout's callback onTimeout
TimerFires(st, id, q) ==
    LET s1 == [st EXCEPT !.timer[id] = "fired", !.expired[id] = TRUE]
        s2 == send(s1, "CANCEL", id)
    IN  onTimeoutEvents(s2, id, q)

\* RSStream.setResponse on the stream request() made for id
setResponse(st, id, follows, q) ==
    IF st.expired[id] THEN st
    ELSE LET s1 == clearTimeout(st, id)
         IN  IF follows THEN s1
             ELSE emit(emit(s1, id, "response", SelfArg, q),
                       id, "terminate", SelfArg, q)

\* the switch of RSStream.setError
ErrorEventName(code) ==
    CASE code \in {"INVALID_SETUP", "UNSUPPORTED_SETUP", "REJECTED_SETUP"}
             -> "setup-error"
      [] code = "CONNECTION_ERROR" -> "connection-error"
      [] code = "APPLICATION_ERROR" -> "application-error"
      [] code = "REJECTED" -> "rejected-error"
      [] code = "CANCELED" -> "cancelled-error"
      [] code = "INVALID" -> "invalid-error"
      [] code = "RESERVED" -> "reserved-error"
      [] OTHER -> "error"

\* RSStream.setError on the stream request() made for id.  emit('error')
\* without a listener throws: the rest of setError and of its caller is skipped.
setError(st, id, frame, q) ==
    IF st.expired[id] THEN st
    ELSE LET s1 == clearTimeout(st, id)
             nm == ErrorEventName(frame.errorCode)
         IN  IF nm = "error" /\ ~ListensError(s1, id)
             THEN [s1 EXCEPT !.thrown = TRUE]
             ELSE emit(emit(s1, id, nm, Pick(frame), q),
                       id, "terminate", SelfArg, q)

\* RSStream.setCancel on the stream request() made for id
setCancel(st, id, q) ==
    emit(emit(st, id, "cancel", CancelFrame, q), id, "terminate", SelfArg, q)

\* Connection._getStream for an id that is not in the table makes a stream
\* nobody listens to ("ghost"): its events reach no listener, its
\* emit('error') throws.
_handleResponse(st, id, follows, q) ==
    IF st.streams[id] = "orig"
    THEN _deleteStream(setResponse(st, id, follows, q), id)
    ELSE _deleteStream(st, id)

_handleError(st, id, code, q) ==
    IF st.streams[id] = "orig"
    THEN LET s1 == setError(st, id, ErrorFrame(code), q)
         IN  IF s1.thrown THEN s1 ELSE _deleteStream(s1, id)
    ELSE IF ErrorEventName(code) = "error"
         THEN [st EXCEPT !.streams[id] = "ghost", !.thrown = TRUE]
         ELSE _deleteStream(st, id)

_handleCancel(st, id, q) ==
    IF st.streams[id] = "orig"
    THEN _deleteStream(setCancel(st, id, q), id)
    ELSE _deleteStream(st, id)

\* the forEach of the transport's 'close' listener over the ids of the stream
\* table, in key order, the setup stream skipped; a throw ends it
RECURSIVE closeEach(_, _, _, _)
closeEach(st, todo, err, q) ==
    IF todo = {} \/ st.thrown THEN st
    ELSE LET id == CHOOSE i \in todo : \A j \in todo : i <= j
             s1 == IF id = 0 THEN st
                   ELSE IF st.streams[id] = "orig"
                        THEN setError(st, id, err, q)
                        ELSE [st EXCEPT !.thrown = TRUE]
         IN  closeEach(s1, todo \ {id}, err, q)

InTable(st) == {i \in Slots : st.streams[i] # "none"}

onClose(st, err, q) ==
    closeEach(st, InTable(st), IF err = NoError THEN ClosedError ELSE err, q)

\* ReEnqueueFilter's reactivesocket.request
FilterRequestSt(st) ==
    LET p == st.nproxy + 1
        a == NewStream(st, FALSE)
        id == a.latest
        b == attach([a EXCEPT !.nproxy = p, !.pfirst[p] = id, !.pn[p] = 1], p, id)
        c == [b EXCEPT !.updHook[id] = TRUE]
    IN  IF a.thrown THEN a ELSE hookRetry(c, p, id)

\* ----------------------------------------------------- connection actions
InitConn ==
    /\ latest = 0
    /\ streams = [i \in Slots |-> IF i = 0 THEN "orig" ELSE "none"]
    /\ timer = [i \in Slots |-> "none"]
    /\ expired = [i \in Slots |-> FALSE]
    /\ errL = [i \in Slots |-> FALSE]
    /\ events = [i \in Slots |-> << >>]
    /\ sent = [i \in Slots |-> << >>]
    /\ leaseN = 0
    /\ tclosed = FALSE
    /\ terr = NoError
    /\ atClose = {}
    /\ owner = [i \in Slots |-> 0]
    /\ bridged = [i \in Slots |-> FALSE]
    /\ updHook = [i \in Slots |-> FALSE]
    /\ pinner = [p \in Proxies |-> 0]
    /\ pfirst = [p \in Proxies |-> 0]
    /\ pn = [p \in Proxies |-> 0]
    /\ plog = [p \in Proxies |-> << >>]
    /\ nproxy = 0
    /\ rate = "zero"
    /\ zeros = 0

FitsUpTo(st, n) == st.latest <= 2 * n
Fits(st) == FitsUpTo(st, MaxStreams)

\* the values of q that retry can tell apart in the current state
Quotients == IF rate = "positive" THEN 1..maxReEqueue ELSE {maxReEqueue}

\* Connection.request by a caller that listens, or not, to 'error'
Request ==
    /\ \E listens \in BOOLEAN :
         LET st == NewStream(St, listens)
         IN  Fits(st) /\ Commit(st) /\ idErr' = (idErr \/ st.thrown)
    /\ UNCHANGED <<tclosed, terr, atClose>>
    /\ UNCHANGED <<idBase, optsLease, _leaseExpirationDate, now, ended,
                   _timers>>
    /\ UNCHANGED notConn

\* request through the ReEnqueueFilter, on a connection that issues at most
\* n requests in the run
FilterRequestUpTo(n) ==
    /\ nproxy < MaxProxies
    /\ LET st == FilterRequestSt(St)
       IN  FitsUpTo(st, n) /\ Commit(st) /\ idErr' = (idErr \/ st.thrown)
    /\ UNCHANGED <<tclosed, terr, atClose>>
    /\ UNCHANGED <<idBase, optsLease, _leaseExpirationDate, now, ended,
                   _timers>>
    /\ UNCHANGED notConn

FilterRequest == FilterRequestUpTo(MaxStreams)

RecvResponse ==
    /\ ~tclosed
    /\ \E id \in Ids, follows \in BOOLEAN, q \in Quotients :
         LET st == _handleResponse(St, id, follows, q) IN Fits(st) /\ Commit(st)
    /\ UNCHANGED <<tclosed, terr, atClose>>
    /\ UNCHANGED clientVars
    /\ UNCHANGED notConn

\* an ERROR frame arrives for one of ids, on a connection that issues at most
\* n requests in the run
RecvErrorUpTo(ids, n) ==
    /\ ~tclosed
    /\ \E id \in ids, code \in InboundCodes,
          q \in Quotients :
         LET st == _handleError(St, id, code, q)
         IN  FitsUpTo(st, n) /\ Commit(st)
    /\ UNCHANGED <<tclosed, terr, atClose>>
    /\ UNCHANGED clientVars
    /\ UNCHANGED notConn

RecvError == RecvErrorUpTo(Ids, MaxStreams)

RecvCancel ==
    /\ ~tclosed
    /\ \E id \in Ids, q \in Quotients :
         LET st == _handleCancel(St, id, q) IN Fits(st) /\ Commit(st)
    /\ UNCHANGED <<tclosed, terr, atClose>>
    /\ UNCHANGED clientVars
    /\ UNCHANGED notConn

TimerExpires ==
    /\ \E id \in ReqIds, q \in Quotients :
         /\ timer[id] = "armed"
         /\ LET st == TimerFires(St, id, q) IN Fits(st) /\ Commit(st)
    /\ UNCHANGED <<tclosed, terr, atClose>>
    /\ UNCHANGED clientVars
    /\ UNCHANGED notConn

\* the transport's 'error' listener
onTransportError ==
    /\ ~tclosed
    /\ terr = NoError
    /\ terr' = TransportError
    /\ UNCHANGED <<latest, streams, timer, expired, errL, events, sent, leaseN,
                   tclosed, atClose, owner, bridged, updHook, pinner, pfirst,
                   pn, plog, nproxy, rate, zeros>>
    /\ UNCHANGED clientVars
    /\ UNCHANGED notConn

\* the transport's 'close' listener (once)
TransportClose ==
    /\ ~tclosed
    /\ tclosed' = TRUE
    /\ atClose' = {i \in Slots : streams[i] = "orig"}
    /\ \E q \in Quotients :
         LET st == onClose(St, terr, q)
         IN  /\ Fits(st) /\ Commit(st)
             /\ _timers' = IF st.thrown THEN _timers ELSE "cleared"
    /\ UNCHANGED <<terr, idBase, idErr, optsLease, _leaseExpirationDate, now,
                   ended>>
    /\ UNCHANGED notConn

NextConn ==
    \/ Request
    \/ RecvResponse
    \/ RecvError
    \/ RecvCancel
    \/ TimerExpires
    \/ onTransportError
    \/ TransportClose

NextFilter ==
    \/ FilterRequest
    \/ RecvResponse
    \/ RecvError
    \/ RecvCancel
    \/ TimerExpires
    \/ onTransportError
    \/ TransportClose

\* requests through the ReEnqueueFilter that fail again and again
RetriedRequest == FilterRequestUpTo(MaxAttempts)
RetriedError == RecvErrorUpTo(Slots, MaxAttempts)

NextRetry ==
    \/ RetriedRequest
    \/ RetriedError

\* --------------------------------------------------- fragmented responses
Frag(d, follows) == [data |-> d, follows |-> follows]

InitFrag ==
    /\ rcvd = [i \in Ids |-> << >>]
    /\ _data = [i \in Ids |-> << >>]
    /\ seen = [i \in Ids |-> <<0>>]


\* the payload part of RSStream.setResponse on the stream request() made:
\* response.data += frame.data, on _data.response of this stream
joinData(data, d) == data \o <<d>>

\* a RESPONSE frame with data d arrives: _handleResponse, the payload and
\* what a 'response' listener reads followed as well
RecvFragment ==
    /\ ~tclosed
    /\ \E id \in ReqIds, d \in 1..MaxData, follows \in BOOLEAN,
          q \in Quotients :
         /\ id <= latest
         /\ Len(rcvd[id]) < MaxFragments
         /\ rcvd' = [rcvd EXCEPT ![id] = Append(@, Frag(d, follows))]
         /\ LET st == _handleResponse(St, id, follows, q)
                taken == streams[id] = "orig" /\ ~expired[id]
            IN  /\ Fits(st) /\ Commit(st)
                /\ _data' = IF taken
                            THEN [_data EXCEPT ![id] = joinData(@, d)]
                            ELSE _data
                /\ seen' = IF taken /\ ~follows
                           THEN [seen EXCEPT ![id] = _data'[id]]
                           ELSE seen
    /\ UNCHANGED <<tclosed, terr, atClose>>
    /\ UNCHANGED clientVars
    /\ UNCHANGED notFrag

NextFragments ==
    \/ Request
    \/ RecvFragment
    \/ TimerExpires

\* ------------------------------------------------- the client connection
\* the fields the constructor sets on a client connection: no lease yet, the
\* lease expiring now, the keepalive ticker running
InitClientWith(bases, leases) ==
    /\ idBase \in bases
    /\ idErr = FALSE
    /\ optsLease \in leases
    /\ _leaseExpirationDate = 0
    /\ now = 0
    /\ ended = FALSE
    /\ _timers = "armed"

InitClientIdle == InitClientWith({0}, {FALSE})

\* Connection.availability
inLeaseWindow == leaseN > 0 /\ _leaseExpirationDate >= now
availability == IF inLeaseWindow THEN 1 ELSE 0

\* Connection._handleLease of a LEASE frame
_handleLease ==
    /\ ~tclosed
    /\ \E budget \in 0..MaxBudget, ttl \in 0..MaxTtl :
         /\ leaseN' = budget
         /\ _leaseExpirationDate' = now + ttl
    /\ UNCHANGED <<latest, streams, timer, expired, errL, events, sent,
                   tclosed, terr, atClose, owner, bridged, updHook, pinner,
                   pfirst, pn, plog, nproxy, rate, zeros>>
    /\ UNCHANGED <<idBase, idErr, optsLease, now, ended, _timers>>
    /\ UNCHANGED notConn

\* Date.now() advances
ClockTick ==
    /\ now < MaxClock
    /\ now' = now + 1
    /\ UNCHANGED <<idBase, idErr, optsLease, _leaseExpirationDate, ended,
                   _timers>>
    /\ UNCHANGED <<connVars, notConn>>

\* Connection.close: it ends the transport stream and nothing else
ConnectionClose ==
    /\ ~ended
    /\ ended' = TRUE
    /\ UNCHANGED <<idBase, idErr, optsLease, _leaseExpirationDate, now,
                   _timers>>
    /\ UNCHANGED <<connVars, notConn>>

\* Connection._sendKeepalive
_sendKeepalive(st) == send(st, "KEEPALIVE", 0)

\* the setInterval callback keepaliveTicker of the constructor
keepaliveTicker ==
    /\ _timers = "armed"
    /\ Len(sent[0]) < MaxKeepalives
    /\ Commit(_sendKeepalive(St))
    /\ UNCHANGED <<tclosed, terr, atClose>>
    /\ UNCHANGED clientVars
    /\ UNCHANGED notConn

NextClient ==
    \/ Request
    \/ _handleLease
    \/ ClockTick
    \/ ConnectionClose
    \/ keepaliveTicker
    \/ TransportClose

\* ------------------------------------------------- the server connection
InitServerWith(listeners) ==
    /\ _isSetup = FALSE
    /\ _version = 0
    /\ _keepalive = 0
    /\ _metadataEncoding = "undefined"
    /\ _dataEncoding = "undefined"
    /\ srvOn \in listeners
    /\ srvLog = << >>
    /\ srvTimers = 0
    /\ srvSent = 0
    /\ nsetup = 0

InitServerIdle == InitServerWith({"none"})

Encodings == {"utf8", "ascii"}
SetupFrames ==
    [version : 1..2, keepalive : 1..2, metadataEncoding : Encodings,
     dataEncoding : Encodings, lease : BOOLEAN]

RejectedSetup == [kind |-> "frame", errorCode |-> "REJECTED_SETUP",
                  message |-> "none"]

\* the first case of the switch of RSStream.setError, on the setup stream of
\* a connection: without a 'setup-error' listener the connection emits
\* 'error', which throws when nobody listens to it
setupError(log, on, error) ==
    IF on = "setup-error" THEN Append(log, Ev("setup-error", error))
    ELSE IF on = "error" THEN Append(log, Ev("error", error))
    ELSE Append(log, Ev("throw", error))

\* the test of _handleSetup that refuses a frame, on a server connection
RefusesNone(isSetup) == FALSE
Refuses(isSetup) == isSetup

\* Connection._handleSetup on a server connection
_handleSetup ==
    /\ nsetup < MaxSetups
    /\ nsetup' = nsetup + 1
    /\ \E frame \in SetupFrames :
         IF Refuses(_isSetup)
         THEN /\ srvLog' = setupError(srvLog, srvOn, Pick(RejectedSetup))
              /\ UNCHANGED <<_isSetup, _version, _keepalive,
                             _metadataEncoding, _dataEncoding, srvTimers,
                             srvSent>>
         ELSE /\ srvSent' = IF frame.lease THEN srvSent + 1 ELSE srvSent
              /\ srvTimers' = IF frame.lease THEN srvTimers + 1 ELSE srvTimers
              /\ _version' = frame.version
              /\ _keepalive' = frame.keepalive
              /\ _metadataEncoding' = frame.metadataEncoding
              /\ _dataEncoding' = frame.dataEncoding
              /\ _isSetup' = TRUE
              /\ srvLog' = Append(srvLog, Ev("setup", NoError))
    /\ UNCHANGED srvOn
    /\ UNCHANGED <<connVars, clientVars, drainVars, lbVars, tcpVars,
                   medianVars, framingVars, extraVars>>

\* the setInterval callback leaseTicker of _handleSetup
leaseTicker ==
    /\ srvTimers > 0
    /\ srvSent < MaxLeases
    /\ srvSent' = srvSent + 1
    /\ UNCHANGED <<_isSetup, _version, _keepalive, _metadataEncoding,
                   _dataEncoding, srvOn, srvLog, srvTimers, nsetup>>
    /\ UNCHANGED <<connVars, clientVars, drainVars, lbVars, tcpVars,
                   medianVars, framingVars, extraVars>>

NextServer ==
    \/ _handleSetup
    \/ leaseTicker

\* -------------------------------------------------- the responder's streams
InitResp ==
    /\ rstreams = [i \in ReqIds |-> "none"]
    /\ rstate = [i \in ReqIds |-> "none"]
    /\ rsent = [i \in ReqIds |-> << >>]

InitSource == gone = {} /\ adds = [f \in 1..MaxFactories |-> 0]

\* ------------------------------------------------- FailureAccrualSocket
\* 1.0 of the Ewma, which holds its value in sixteenths
EwmaOne == 16

\* halfLifeMs / Math.log(2) is 1.44 half-lives: a whole number of half-lives
\* is greater than it exactly when it is greater than 1
_failureAccrualWindow == 1

RECURSIVE Pow2(_)
Pow2(n) == IF n = 0 THEN 1 ELSE 2 * Pow2(n - 1)

\* Ewma.insert(x) at time t: alpha = exp(-(t - stamp) * ln 2 / halfLife),
\* ewma := alpha * ewma + (1 - alpha) * x, stamp := t
EwmaSample(e, x, t) ==
    LET w == Pow2(t - e.stamp)
    IN  [ewma |-> (e.ewma + (w - 1) * x * EwmaOne) \div w, stamp |-> t]

\* Ewma.value() at time t, with its lazy decay: ewma := alpha * ewma
EwmaValue(e, t) ==
    [ewma |-> e.ewma \div Pow2(t - e.stamp), stamp |-> t]

\* Ewma.reset(a) at time t
EwmaReset(e, a, t) == [ewma |-> a, stamp |-> t]

\* the constructor of FailureAccrualSocket, at time 0
InitAccrual ==
    /\ faNow = 0
    /\ _failureAccrualStamp = 0
    /\ _failureAccrualEwma = [ewma |-> EwmaOne, stamp |-> 0]
    /\ faUpdated = 0
    /\ faPolls = 0
    /\ faSnapped = FALSE

\* one half-life passes
AccrualTick ==
    /\ faNow < MaxAccrualClock
    /\ faNow' = faNow + 1
    /\ UNCHANGED <<_failureAccrualStamp, _failureAccrualEwma, faUpdated,
                   faPolls, faSnapped>>
    /\ UNCHANGED notAccrual

\* a stream of the socket emits 'response' (x = 1) or 'terminate' without a
\* response (x = 0), and its listener inserts the sample
AccrualSample ==
    /\ \E x \in {0, 1} :
         _failureAccrualEwma' = EwmaSample(_failureAccrualEwma, x, faNow)
    /\ faUpdated' = faNow
    /\ UNCHANGED <<faNow, _failureAccrualStamp, faPolls, faSnapped>>
    /\ UNCHANGED notAccrual

\* reactivesocket.availability of a FailureAccrualSocket
accrualAvailability ==
    /\ faPolls < MaxPolls
    /\ LET read == EwmaValue(_failureAccrualEwma, faNow)
           e == read.ewma
           elapsed == faNow - _failureAccrualStamp
           a == Min(EwmaOne, e + EwmaOne \div 2)
       IN  IF elapsed > _failureAccrualWindow
           THEN /\ _failureAccrualEwma' = EwmaReset(read, a, faNow)
                /\ faUpdated' = faNow
                /\ faSnapped' = TRUE
           ELSE /\ _failureAccrualEwma' = read
                /\ faSnapped' = FALSE
                /\ UNCHANGED faUpdated
    /\ faPolls' = faPolls + 1
    /\ UNCHANGED <<faNow, _failureAccrualStamp>>
    /\ UNCHANGED notAccrual

NextAccrual == AccrualTick \/ AccrualSample \/ accrualAvailability

\* --------------------------------------------------- the rounds of p3c
\* the rounds of the for loop
P3C_EFFORT == 5

\* i1, i2 and i3 of one round, from what Math.floor(Math.random() * n),
\* (n - 1) and (n - 2) gave
IndicesAsDrawn(r1, r2, r3) == <<r1, r2, r3>>
Indices(r1, r2, r3) ==
    IF r2 >= r1
    THEN LET i2 == r2 + 1
             a == IF r3 >= r1 THEN r3 + 1 ELSE r3
             b == IF a >= i2 THEN a + 1 ELSE a
         IN  <<r1, i2, b>>
    ELSE LET a == IF r3 >= r2 THEN r3 + 1 ELSE r3
             b == IF a >= r1 THEN a + 1 ELSE a
         IN  <<r1, r2, b>>

\* p3c is called with a list of n >= 3 objects
InitP3cWith(lengths) ==
    /\ p3n \in lengths
    /\ p3e = 0
    /\ p3i = << >>
    /\ p3break = FALSE

InitP3c == InitP3cWith(3..MaxList)
InitP3cIdle == InitP3cWith({3})

\* one round of the for loop of p3c; available tells whether the three
\* objects drawn all have availability() > 0
P3cRound ==
    /\ p3e < P3C_EFFORT
    /\ ~p3break
    /\ \E r1 \in 0..(p3n - 1), r2 \in 0..(p3n - 2), r3 \in 0..(p3n - 3),
          available \in BOOLEAN :
         /\ p3i' = Indices(r1, r2, r3)
         /\ p3break' = available
    /\ p3e' = p3e + 1
    /\ UNCHANGED p3n
    /\ UNCHANGED notP3c

NextP3c == P3cRound

InitExtraWith(lengths) ==
    InitFrag /\ InitResp /\ InitSource /\ InitAccrual /\ InitP3cWith(lengths)
InitExtra == InitExtraWith({3})

\* the exchanges that have reached a terminal transition
Terminal == {"responded", "errored", "cancelled", "failed"}

\* Connection._handleRequest with RSStream.setRequest: a REQUEST frame arrives
\* on a server connection.  _getStream puts the stream in the table, the
\* 'response' and 'error' listeners that delete it are put on it, and the
\* frame that does not carry FOLLOWS hands the stream to the application.
_handleRequest ==
    /\ \E id \in ReqIds, follows \in BOOLEAN :
         /\ rstate[id] \in {"none", "partial"}
         /\ IF ~_isSetup
            THEN UNCHANGED <<rstreams, rstate>>
            ELSE /\ rstreams' = [rstreams EXCEPT ![id] = "open"]
                 /\ rstate' = [rstate EXCEPT ![id] = IF follows THEN "partial"
                                                     ELSE "requested"]
    /\ UNCHANGED rsent
    /\ UNCHANGED notResp

\* RSStream.response(res) by the application: the frame is sent, 'response'
\* runs the listener of _handleRequest, which deletes the stream
StreamResponse ==
    /\ \E id \in ReqIds, follows \in BOOLEAN :
         /\ rstate[id] = "requested"
         /\ Len(rsent[id]) < MaxFragments
         /\ rsent' = [rsent EXCEPT ![id] = Append(@, "RESPONSE")]
         /\ rstreams' = [rstreams EXCEPT ![id] = "none"]
         /\ rstate' = [rstate EXCEPT ![id] = IF follows THEN @ ELSE "responded"]
    /\ UNCHANGED notResp

\* RSStream.error(err) by the application: the frame is sent, and no event
\* is emitted on the stream
StreamError ==
    /\ \E id \in ReqIds :
         /\ rstate[id] = "requested"
         /\ rsent' = [rsent EXCEPT ![id] = Append(@, "ERROR")]
         /\ rstate' = [rstate EXCEPT ![id] = "errored"]
    /\ UNCHANGED rstreams
    /\ UNCHANGED notResp

\* Connection._handleCancel on the server connection: a CANCEL frame arrives
\* for a request that is under way
ResponderCancel ==
    /\ \E id \in ReqIds :
         /\ rstate[id] \in {"partial", "requested"}
         /\ rstreams' = [rstreams EXCEPT ![id] = "none"]
         /\ rstate' = [rstate EXCEPT ![id] = "cancelled"]
    /\ UNCHANGED rsent
    /\ UNCHANGED notResp

\* Connection._handleError on the server connection: an ERROR frame arrives
\* for a request that is under way; the 'error' listener of _handleRequest is
\* on the stream
ResponderError ==
    /\ \E id \in ReqIds :
         /\ rstate[id] \in {"partial", "requested"}
         /\ rstreams' = [rstreams EXCEPT ![id] = "none"]
         /\ rstate' = [rstate EXCEPT ![id] = "failed"]
    /\ UNCHANGED rsent
    /\ UNCHANGED notResp

NextResponder ==
    \/ _handleSetup
    \/ _handleRequest
    \/ StreamResponse
    \/ StreamError
    \/ ResponderCancel
    \/ ResponderError

\* ----------------------------------------------------------- SlidingMedian
\* the indices of _buffer the inserts of a run can touch; an index outside
\* 0..2 * _size - 1 is a property of the array object
BufIdx == (0 - MaxInserts - 1)..(2 * MaxWindow + MaxInserts + 1)

Undefined == [def |-> FALSE, val |-> 0]
Num(x) == [def |-> TRUE, val |-> x]

\* e < x and x > e of JavaScript, false when e is undefined
Lt(e, x) == e.def /\ e.val < x
Gt(x, e) == e.def /\ x > e.val

\* new SlidingMedian(size)
SlidingMedian(size) ==
    [size |-> size, buffer |-> [i \in BufIdx |-> Undefined], from |-> size,
     to |-> size]

InitMedianWith(sizes) ==
    \E size \in sizes :
        LET m == SlidingMedian(size)
        IN  /\ smSize = m.size
            /\ _buffer = m.buffer
            /\ _from = m.from
            /\ _to = m.to
            /\ inserted = << >>

InitMedian == InitMedianWith(1..MaxWindow)
InitMedianIdle == InitMedianWith({1})

Median == [size |-> smSize, buffer |-> _buffer, from |-> _from, to |-> _to]

\* the binary search of _shiftRight and _shiftLeft: from and to at its end
RECURSIVE search(_, _, _, _)
search(buf, from, to, x) ==
    IF from > to THEN [from |-> from, to |-> to]
    ELSE LET mid == (from + to) \div 2
         IN  IF Lt(buf[mid], x) THEN search(buf, mid + 1, to, x)
             ELSE search(buf, from, mid - 1, x)

\* for (k = ...; k >= from; k--) buffer[k] = buffer[k - 1]
RECURSIVE moveRight(_, _, _)
moveRight(buf, k, from) ==
    IF k < from THEN buf
    ELSE moveRight([buf EXCEPT ![k] = buf[k - 1]], k - 1, from)

\* for (k = ...; k < to; k++) buffer[k] = buffer[k + 1]
RECURSIVE moveLeft(_, _, _)
moveLeft(buf, k, to) ==
    IF k >= to THEN buf
    ELSE moveLeft([buf EXCEPT ![k] = buf[k + 1]], k + 1, to)

\* SlidingMedian._shiftRight: the buffer after it and the index it returns
_shiftRight(m, start, x) ==
    LET r == search(m.buffer, start, m.to - 1, x)
    IN  [m |-> [m EXCEPT !.buffer = moveRight(@, m.to, r.from)], i |-> r.from]

\* SlidingMedian._shiftLeft
_shiftLeft(m, end, x) ==
    LET r == search(m.buffer, m.from, end, x)
    IN  [m |-> [m EXCEPT !.buffer = moveLeft(@, m.from - 1, r.to)], i |-> r.to]

\* the two copy loops of _compact
RECURSIVE copyDown(_, _, _)
copyDown(buf, i, j) ==
    IF i < 0 THEN buf ELSE copyDown([buf EXCEPT ![j] = buf[i]], i - 1, j - 1)

RECURSIVE copyUp(_, _, _, _)
copyUp(buf, i, to, j) ==
    IF i >= to THEN buf
    ELSE copyUp([buf EXCEPT ![j] = buf[i]], i + 1, to, j + 1)

\* SlidingMedian._compact
_compact(m) ==
    LET buf == IF m.from = 0
               THEN copyDown(m.buffer, m.size - 1,
                             m.size + (m.size \div 2) - 1)
               ELSE copyUp(m.buffer, m.from, m.to, m.size \div 2)
    IN  [m EXCEPT !.buffer = buf, !.from = m.size \div 2,
                  !.to = (m.size \div 2) + m.size]

\* SlidingMedian.insert
insert(m, x) ==
    LET n == m.to - m.from
        midpoint == (m.from + m.to) \div 2
    IN  IF n = 0
        THEN [m EXCEPT !.buffer[m.from] = Num(x), !.to = m.to + 1]
        ELSE IF Gt(x, m.buffer[midpoint])
        THEN LET c == IF m.to = 2 * m.size THEN _compact(m) ELSE m
                 r == _shiftRight(c, midpoint + 1, x)
                 d == [r.m EXCEPT !.buffer[r.i] = Num(x), !.to = @ + 1]
             IN  IF n = m.size THEN [d EXCEPT !.from = @ + 1] ELSE d
        ELSE LET c == IF m.from = 0 THEN _compact(m) ELSE m
                 r == _shiftLeft(c, midpoint - 1, x)
                 d == [r.m EXCEPT !.buffer[r.i] = Num(x), !.from = @ - 1]
             IN  IF n = m.size THEN [d EXCEPT !.to = @ - 1] ELSE d

\* SlidingMedian.estimate; an undefined element is reported as -1
estimateEnd(m) == m.to
estimateMidpoint(m) == (m.from + m.to) \div 2

estimate(m) ==
    IF m.to = m.from THEN 0
    ELSE LET e == m.buffer[estimateMidpoint(m)]
         IN  IF e.def THEN e.val ELSE 0 - 1

Insert ==
    /\ Len(inserted) < MaxInserts
    /\ \E x \in 1..MaxValue :
         LET m == insert(Median, x)
         IN  /\ _buffer' = m.buffer
             /\ _from' = m.from
             /\ _to' = m.to
             /\ inserted' = Append(inserted, x)
    /\ UNCHANGED smSize
    /\ UNCHANGED <<connVars, clientVars, drainVars, lbVars, tcpVars,
                   serverVars, framingVars, extraVars>>

NextMedian == Insert

\* ----------------------------------------------------------- FramingStream
\* FRAME_HEADER_LENGTH of the protocol constants: the length prefix, the type,
\* the flags and the stream id
FRAME_HEADER_LENGTH == 12

\* the frame number i of a stream, with a given length: its length as a
\* big-endian u32, then bytes that tell the frames and the offsets apart
Frame(i, length) ==
    [j \in 1..length |->
        IF j <= 3 THEN 0 ELSE IF j = 4 THEN length ELSE 16 * i + j]

FrameLengths == FRAME_HEADER_LENGTH..(FRAME_HEADER_LENGTH + MaxBody)

FramesOf(lengths) == [i \in 1..Len(lengths) |-> Frame(i, lengths[i])]

RECURSIVE Concat(_)
Concat(fs) == IF fs = << >> THEN << >> ELSE Head(fs) \o Concat(Tail(fs))

LengthLists(ns) == UNION {[1..n -> FrameLengths] : n \in ns}

\* new Buffer(n): memory that is not initialized, shown as -1
newBuffer(n) == [i \in 1..n |-> 0 - 1]

\* buf.readUInt32BE(offset)
readUInt32BE(buf, offset) ==
    ((buf[offset + 1] * 256 + buf[offset + 2]) * 256 + buf[offset + 3]) * 256
        + buf[offset + 4]

\* source.copy(target, targetStart, sourceStart, sourceEnd): what fits
copy(source, target, targetStart, sourceStart, sourceEnd) ==
    [i \in 1..Len(target) |->
        IF /\ i - 1 >= targetStart
           /\ i - 1 - targetStart < sourceEnd - sourceStart
           /\ sourceStart + (i - 1 - targetStart) < Len(source)
        THEN source[sourceStart + (i - 1 - targetStart) + 1]
        ELSE target[i]]

\* chunk.slice(start, end)
slice(chunk, start, end) == SubSeq(chunk, start + 1, end)

InitFramingWith(lists) ==
    \E lengths \in lists :
        /\ frames = FramesOf(lengths)
        /\ wire = Concat(FramesOf(lengths))
        /\ delivered = 0
        /\ fsBuffer = << >>
        /\ buffered = FALSE
        /\ _frameLength = 0
        /\ _pos = 0
        /\ pushed = << >>
        /\ failed = FALSE

InitFraming == InitFramingWith(LengthLists(1..MaxFrames))
InitFramingIdle == InitFramingWith({<<FRAME_HEADER_LENGTH>>})

Framing == [buffer |-> fsBuffer, buffered |-> buffered,
            frameLength |-> _frameLength, pos |-> _pos, pushed |-> pushed,
            failed |-> failed]

\* k of the branch that completes the length prefix
prefixBytesAll(have, chunkLen) == chunkLen
prefixBytes(have, chunkLen) == Min(4 - have, chunkLen)

\* the while loop of FramingStream._transform from position pos of the chunk
RECURSIVE transformLoop(_, _, _)
transformLoop(f, chunk, pos) ==
    IF pos >= Len(chunk) \/ f.failed THEN f
    ELSE LET chunkLen == Len(chunk) - pos
         IN  IF ~f.buffered
             THEN IF chunkLen > 4
                  THEN LET msgLen == readUInt32BE(chunk, pos)
                       IN  IF chunkLen >= msgLen
                           THEN transformLoop(
                                  [f EXCEPT !.pushed =
                                      Append(@, slice(chunk, pos, pos + msgLen))],
                                  chunk, pos + msgLen)
                           ELSE transformLoop(
                                  [f EXCEPT !.buffer = copy(chunk, newBuffer(msgLen),
                                                            0, pos, Len(chunk)),
                                            !.buffered = TRUE,
                                            !.frameLength = msgLen,
                                            !.pos = chunkLen],
                                  chunk, pos + chunkLen)
                  ELSE transformLoop(
                         [f EXCEPT !.buffer = copy(chunk, newBuffer(4), 0, pos,
                                                   Len(chunk)),
                                   !.buffered = TRUE,
                                   !.pos = chunkLen],
                         chunk, pos + chunkLen)
             ELSE IF f.frameLength = 0
             THEN IF pos # 0 THEN [f EXCEPT !.failed = TRUE]
                  ELSE LET k == prefixBytes(f.pos, chunkLen)
                           b == copy(chunk, f.buffer, f.pos, 0, k)
                           g == [f EXCEPT !.buffer = b, !.pos = f.pos + k]
                       IN  IF g.pos = 4
                           THEN LET msgLen == readUInt32BE(b, g.pos - 4)
                                IN  transformLoop(
                                      [g EXCEPT !.buffer = copy(b, newBuffer(msgLen),
                                                                0, 0, 4),
                                                !.frameLength = msgLen],
                                      chunk, pos + k)
                           ELSE transformLoop(g, chunk, pos + k)
             ELSE LET n == Min(f.frameLength - f.pos, chunkLen)
                      b == copy(chunk, f.buffer, f.pos, pos, pos + n)
                  IN  IF f.pos + n = f.frameLength
                      THEN transformLoop(
                             [f EXCEPT !.pushed = Append(@, b),
                                       !.buffer = << >>,
                                       !.buffered = FALSE,
                                       !.frameLength = 0,
                                       !.pos = 0],
                             chunk, pos + n)
                      ELSE transformLoop([f EXCEPT !.buffer = b, !.pos = f.pos + n],
                                         chunk, pos + n)

\* FramingStream._transform of the next chunk of the transport, of any size
_transform ==
    /\ delivered < Len(wire)
    /\ ~failed
    /\ \E size \in 1..(Len(wire) - delivered) :
         LET f == transformLoop(Framing,
                                SubSeq(wire, delivered + 1, delivered + size), 0)
         IN  /\ delivered' = delivered + size
             /\ fsBuffer' = f.buffer
             /\ buffered' = f.buffered
             /\ _frameLength' = f.frameLength
             /\ _pos' = f.pos
             /\ pushed' = f.pushed
             /\ failed' = f.failed
    /\ UNCHANGED <<wire, frames>>
    /\ UNCHANGED <<connVars, clientVars, drainVars, lbVars, tcpVars,
                   serverVars, medianVars, extraVars>>

NextFraming == _transform

\* ------------------------------------------------ DrainingReactiveSocket
DrainReqs == 1..MaxDrainReqs

InitDrain ==
    /\ dPendings = 0
    /\ dCb = "null"
    /\ dTimerId = 0
    /\ dTimers = {}
    /\ dTimerN = 0
    /\ dStreams = [s \in DrainReqs |-> "none"]
    /\ dCloseN = 0
    /\ dInner = 0
    /\ dWaiting = FALSE
    /\ dUnder = 0
    /\ dDeferred = -1
    /\ dOutside = FALSE

\* a callback, undefined or null as the condition of an if
Truthy(cb) == cb = "cb"

\* reactivesocket.availability of the decorator
DrainingAvailability == IF Truthy(dCb) THEN 0 ELSE dUnder

\* underlyingClose(cb)
underlyingClose ==
    /\ dInner' = dInner + 1
    /\ dWaiting' = FALSE

\* reactivesocket.request of the decorator
DrainRequest ==
    /\ \E s \in DrainReqs :
         /\ dStreams[s] = "none"
         /\ \A r \in DrainReqs : r < s => dStreams[r] # "none"
         /\ dStreams' = [dStreams EXCEPT ![s] = "live"]
    /\ dPendings' = dPendings + 1
    /\ dOutside' = (dOutside \/ dDeferred >= 0)
    /\ UNCHANGED <<dCb, dTimerId, dTimers, dTimerN, dCloseN, dInner, dWaiting,
                   dUnder, dDeferred>>
    /\ UNCHANGED notDrain

\* _onRequestComplete, the 'terminate' listener of a stream.  A stream emits
\* 'terminate' once, or twice when a CANCEL frame reached it and its request
\* timer expires afterwards ("late" is the stream between the two).
_onRequestComplete ==
    /\ \E s \in DrainReqs, again \in BOOLEAN :
         /\ dStreams[s] \in {"live", "late"}
         /\ dStreams' = [dStreams EXCEPT
                            ![s] = IF @ = "live" /\ again THEN "late" ELSE "done"]
    /\ dPendings' = dPendings - 1
    /\ IF Truthy(dCb) /\ dPendings' = 0
       THEN /\ underlyingClose
            /\ dTimers' = dTimers \ {dTimerId}
       ELSE UNCHANGED <<dInner, dWaiting, dTimers>>
    /\ UNCHANGED <<dCb, dTimerId, dTimerN, dCloseN, dUnder, dDeferred, dOutside>>
    /\ UNCHANGED notDrain

\* reactivesocket.close(cb) of the decorator, by the owner
DrainClose ==
    /\ dCloseN < MaxDrainCloses
    /\ dCloseN' = dCloseN + 1
    /\ \E cb \in {"undefined", "cb"} :
         IF dPendings = 0
         THEN /\ underlyingClose
              /\ dOutside' = (dOutside \/ dDeferred >= 0)
              /\ UNCHANGED <<dCb, dTimerId, dTimers, dTimerN, dDeferred>>
         ELSE /\ dCb' = cb
              /\ dTimerN' = dTimerN + 1
              /\ dTimerId' = dTimerN + 1
              /\ dTimers' = dTimers \cup {dTimerN + 1}
              /\ dWaiting' = TRUE
              /\ dDeferred' = IF dDeferred < 0 THEN dInner ELSE dDeferred
              /\ UNCHANGED <<dInner, dOutside>>
    /\ UNCHANGED <<dPendings, dStreams, dUnder>>
    /\ UNCHANGED notDrain

\* the callback of the setTimeout of close
DrainTimeout ==
    /\ \E t \in dTimers : dTimers' = dTimers \ {t}
    /\ dCb' = "null"
    /\ underlyingClose
    /\ UNCHANGED <<dPendings, dTimerId, dTimerN, dStreams, dCloseN, dUnder,
                   dDeferred, dOutside>>
    /\ UNCHANGED notDrain

\* the lease of the underlying connection is granted, used up or expires
DrainLease ==
    /\ dUnder' = 1 - dUnder
    /\ UNCHANGED <<dPendings, dCb, dTimerId, dTimers, dTimerN, dStreams, dCloseN,
                   dInner, dWaiting, dDeferred, dOutside>>
    /\ UNCHANGED notDrain

NextDrain ==
    \/ DrainRequest
    \/ _onRequestComplete
    \/ DrainClose
    \/ DrainTimeout
    \/ DrainLease

\* ----------------------------------------------------------- LoadBalancer
FactoryIds == 1..MaxFactories
SocketIds == 1..MaxSockets

defaultInitialAperture == 5
defaultMinAperture == 4
defaultMaxAperture == 100

\* opts.x || d: an omitted option and the number 0 both give the default
OrDefault(x, d) == IF x = 0 THEN d ELSE x

\* the opts.initialAperture, opts.minAperture and opts.maxAperture the
\* constructor is given, 0 for an omitted option: none; an initial aperture
\* under the minimum; one over the maximum; a minimum over the maximum
ApertureOptions == {<<0, 0, 0>>, <<1, 2, 2>>, <<3, 1, 2>>, <<1, 0, 2>>}

EMPTY_LB_ERROR == Obj("Error", "undefined", "Empty Loadbalancer")

\* FAILING_STREAM.on(what, f) by the LoadBalancer ("lb") or the caller
\* ("user"): pending is the setImmediate that will call f
FailingOnErrorOnly(rs, what, by) ==
    Append(rs, [what |-> what, by |-> by, pending |-> what = "error",
                calls |-> 0, arg |-> NoError])
FAILING_STREAM_on(rs, what, by) ==
    Append(rs, [what |-> what, by |-> by,
                pending |-> what \in {"error", "terminate"},
                calls |-> 0, arg |-> NoError])

IndexOf(seq, x) ==
    IF \E i \in 1..Len(seq) : seq[i] = x
    THEN CHOOSE i \in 1..Len(seq) : seq[i] = x /\ \A j \in 1..(i - 1) : seq[j] # x
    ELSE 0
\* a splice that removes nothing
SpliceKeeps(seq, i) == seq
\* seq.splice(i, 1)
Splice(seq, i) == SubSeq(seq, 1, i - 1) \o SubSeq(seq, i + 1, Len(seq))
Range(seq) == {seq[i] : i \in 1..Len(seq)}

\* p3c(availableObjects, loadOf): null (0) for the empty list, else the object
\* the loads and the random draws favour, which is pick when it is in the list
p3c(list, pick) ==
    IF list = << >> THEN 0
    ELSE IF pick \in Range(list) THEN pick ELSE list[1]

\* the fields of the LoadBalancer its private methods read and write; due is
\* now - _lastApertureRefresh > _apertureRefreshPeriodMs
LB(due) ==
    [factories |-> _factories, sockets |-> _sockets, pendings |-> _pendings,
     outstandings |-> _outstandings, closed |-> _closed,
     target |-> _targetAperture, min |-> _minAperture, max |-> _maxAperture,
     refreshed |-> refreshed, due |-> due, building |-> building,
     sockClose |-> sockClose]

CommitLB(l) ==
    /\ _factories' = l.factories
    /\ _sockets' = l.sockets
    /\ _pendings' = l.pendings
    /\ _targetAperture' = l.target
    /\ refreshed' = l.refreshed
    /\ building' = l.building
    /\ sockClose' = l.sockClose

\* the rate limit passes always while _lastApertureRefresh is still 0
Dues == IF refreshed THEN BOOLEAN ELSE {TRUE}
\* the sockets p3c can tell apart in the current state
SocketPicks == IF Len(_sockets) > 1 THEN SocketIds ELSE {1}

_updateApertureUnguarded(l) ==
    IF ~l.due \/ l.closed THEN l
    ELSE [l EXCEPT !.target = @ - 1, !.refreshed = TRUE, !.due = FALSE]
\* avgOutstandings < 1.5 and > 2.5 without the division
_updateAperture(l) ==
    IF ~l.due \/ l.closed THEN l
    ELSE LET n == Len(l.sockets)
         IN  IF n = 0 \/ 2 * l.outstandings < 3 * n
             THEN [l EXCEPT !.target = IF l.min < @ THEN @ - 1 ELSE @,
                            !.refreshed = TRUE, !.due = FALSE]
             ELSE IF 2 * l.outstandings > 5 * n
             THEN [l EXCEPT !.target = IF l.max > @ THEN @ + 1 ELSE @,
                            !.refreshed = TRUE, !.due = FALSE]
             ELSE l

_addSocket(l, f) ==
    IF l.closed THEN l
    ELSE [l EXCEPT !.pendings = @ + 1, !.building[f] = @ + 1]

\* _refreshSockets with _selectFactory and _selectSlowSocket; sp and fp are the
\* socket and the factory p3c favours
RECURSIVE _refreshSockets(_, _, _)
RECURSIVE _removeSocket(_, _, _, _)
RECURSIVE _addFactory(_, _, _, _)
_refreshSockets(l, sp, fp) ==
    IF l.closed THEN l
    ELSE LET a == _updateAperture(l)
             n == Len(a.sockets) + a.pendings
         IN  IF n < a.target
             THEN LET f == p3c(a.factories, fp)
                  IN  IF f = 0 THEN a
                      ELSE _addSocket([a EXCEPT !.factories =
                                          Splice(@, IndexOf(@, f))], f)
             ELSE IF n > a.target
             THEN LET s == p3c(a.sockets, sp)
                  IN  IF s = 0 THEN a ELSE _removeSocket(a, s, sp, fp)
             ELSE a

_removeSocket(l, s, sp, fp) ==
    LET i == IndexOf(l.sockets, s)
        a == IF i > 0
             THEN [l EXCEPT !.sockets = Splice(@, i), !.sockClose[s] = FALSE]
             ELSE l
    IN  _addFactory(a, sockFactory[s], sp, fp)

_addFactory(l, f, sp, fp) ==
    IF l.closed THEN l
    ELSE _refreshSockets([l EXCEPT !.factories = Append(@, f)], sp, fp)

RECURSIVE removeEach(_, _, _, _)
removeEach(l, todo, sp, fp) ==
    IF todo = << >> THEN l
    ELSE removeEach(_removeSocket(l, Head(todo), sp, fp), Tail(todo), sp, fp)

_removeFactory(l, f, sp, fp) ==
    LET i == IndexOf(l.factories, f)
        a == IF i > 0 THEN [l EXCEPT !.factories = Splice(@, i)] ELSE l
        socketToClose == SelectSeq(a.sockets, LAMBDA s : sockFactory[s] = f)
    IN  _refreshSockets(removeEach(a, socketToClose, sp, fp), sp, fp)

\* LoadBalancer.prototype._removeSocket(socket) as the listeners of _addSocket
\* call it: this is LoadBalancer.prototype, which has no _sockets, so indexOf
\* is read from undefined and the TypeError leaves every field as it was
prototype_removeSocket(l, s) == l

InitLBWith(options) ==
    /\ _factories = << >>
    /\ _sockets = << >>
    /\ _pendings = 0
    /\ _outstandings = 0
    /\ _isReady = FALSE
    /\ _closed = FALSE
    /\ \E opts \in options :
         /\ initialAperture = OrDefault(opts[1], defaultInitialAperture)
         /\ _minAperture = OrDefault(opts[2], defaultMinAperture)
         /\ _maxAperture = OrDefault(opts[3], defaultMaxAperture)
    /\ _targetAperture = initialAperture
    /\ refreshed = FALSE
    /\ _refreshTimer = FALSE
    /\ building = [f \in FactoryIds |-> 0]
    /\ built = 0
    /\ sockFactory = [s \in SocketIds |-> 0]
    /\ sockClose = [s \in SocketIds |-> FALSE]
    /\ sockState = [s \in SocketIds |-> "none"]
    /\ sockTold = [s \in SocketIds |-> FALSE]
    /\ sockPending = [s \in SocketIds |-> 0]
    /\ regs = << >>
    /\ nadd = 0
    /\ nremove = 0

InitLB == InitLBWith(ApertureOptions)
\* the LoadBalancer of the specifications of the other components
InitLBIdle == InitLBWith({<<0, 0, 0>>})

\* the factory source emits 'add', at most limit times in a run
SourceAddUpTo(limit) ==
    /\ nadd < limit
    /\ nadd' = nadd + 1
    /\ \E f \in FactoryIds, due \in Dues, sp \in SocketPicks, fp \in FactoryIds :
         /\ CommitLB(_addFactory(LB(due), f, sp, fp))
         /\ gone' = gone \ {f}
         /\ adds' = [adds EXCEPT ![f] = Min(@ + 1, 2)]
    /\ UNCHANGED <<_outstandings, _isReady, _closed, _minAperture, _maxAperture,
                   initialAperture, _refreshTimer, built, sockFactory, sockState,
                   sockTold, sockPending, regs,
                   nremove>>
    /\ UNCHANGED notSource

SourceAdd == SourceAddUpTo(MaxAdds)
FactoryAdd == SourceAddUpTo(MaxLateAdds)

\* the factory source emits 'remove'
SourceRemove ==
    /\ nremove < MaxRemoves
    /\ nremove' = nremove + 1
    /\ \E f \in FactoryIds, due \in Dues, sp \in SocketPicks, fp \in FactoryIds :
         /\ CommitLB(_removeFactory(LB(due), f, sp, fp))
         /\ gone' = gone \cup {f}
         /\ UNCHANGED adds
    /\ UNCHANGED <<_outstandings, _isReady, _closed, _minAperture, _maxAperture,
                   initialAperture, _refreshTimer, built, sockFactory, sockState,
                   sockTold, sockPending, regs,
                   nadd>>
    /\ UNCHANGED notSource

\* the 'reactivesocket' listener of _addSocket, with _ready
BuildOk ==
    /\ built < MaxSockets
    /\ \E f \in FactoryIds :
         /\ building[f] > 0
         /\ building' = [building EXCEPT ![f] = @ - 1]
         /\ sockFactory' = [sockFactory EXCEPT ![built + 1] = f]
    /\ built' = built + 1
    /\ sockClose' = [sockClose EXCEPT ![built + 1] = TRUE]
    /\ sockState' = [sockState EXCEPT ![built + 1] = "open"]
    /\ _sockets' = Append(_sockets, built + 1)
    /\ _pendings' = _pendings - 1
    /\ _isReady' = TRUE
    /\ refreshed' = (refreshed \/ ~_isReady)
    /\ _refreshTimer' = (_refreshTimer \/ ~_isReady)
    /\ UNCHANGED <<_factories, _outstandings, _closed, _targetAperture,
                   _minAperture, _maxAperture, initialAperture, sockTold,
                   sockPending, regs, nadd, nremove>>
    /\ UNCHANGED notLB

\* an 'error' listener that puts the factory back in the list
BuildFailReturns ==
    /\ \E f \in FactoryIds :
         /\ building[f] > 0
         /\ building' = [building EXCEPT ![f] = @ - 1]
         /\ _factories' = Append(_factories, f)
    /\ _pendings' = _pendings - 1
    /\ UNCHANGED <<_sockets, _outstandings, _isReady, _closed,
                   _targetAperture, _minAperture, _maxAperture, initialAperture,
                   refreshed, _refreshTimer, built, sockFactory, sockClose,
                   sockState, sockTold, sockPending, regs, nadd, nremove>>
    /\ UNCHANGED notLB

\* the 'error' listener of factory.build() in _addSocket
BuildFail ==
    /\ \E f \in FactoryIds :
         /\ building[f] > 0
         /\ building' = [building EXCEPT ![f] = @ - 1]
    /\ _pendings' = _pendings - 1
    /\ UNCHANGED <<_factories, _sockets, _outstandings, _isReady, _closed,
                   _targetAperture, _minAperture, _maxAperture, initialAperture,
                   refreshed, _refreshTimer, built, sockFactory, sockClose,
                   sockState, sockTold, sockPending, regs, nadd, nremove>>
    /\ UNCHANGED notLB

\* LoadBalancer.request with _selectSocket; rp is the socket p3c favours
LBRequest ==
    /\ _outstandings < MaxOutstandings
    /\ Len(regs) < MaxRegs
    /\ IF _closed
       THEN UNCHANGED <<_factories, _sockets, _pendings, _outstandings,
                        _targetAperture, refreshed, building, sockClose,
                        sockPending, regs>>
       ELSE \E due \in Dues, sp \in SocketPicks, fp \in FactoryIds,
               rp \in SocketPicks :
              LET l == _refreshSockets(LB(due), sp, fp)
                  s == p3c(l.sockets, rp)
              IN  /\ CommitLB(l)
                  /\ _outstandings' = _outstandings + 1
                  /\ IF s = 0
                     THEN /\ regs' = FAILING_STREAM_on(regs, "terminate", "lb")
                          /\ UNCHANGED sockPending
                     ELSE /\ sockPending' = [sockPending EXCEPT ![s] = @ + 1]
                          /\ UNCHANGED regs
    /\ UNCHANGED <<_isReady, _closed, _minAperture, _maxAperture,
                   initialAperture, _refreshTimer, built, sockFactory, sockState,
                   sockTold, nadd, nremove>>
    /\ UNCHANGED notLB

\* the 'terminate' listener of request on the stream of a member socket
StreamTerminate ==
    /\ \E s \in SocketIds :
         /\ sockPending[s] > 0
         /\ sockPending' = [sockPending EXCEPT ![s] = @ - 1]
    /\ _outstandings' = _outstandings - 1
    /\ UNCHANGED <<_factories, _sockets, _pendings, _isReady, _closed,
                   _targetAperture, _minAperture, _maxAperture, initialAperture,
                   refreshed, _refreshTimer, building, built, sockFactory,
                   sockClose, sockState, sockTold, regs, nadd, nremove>>
    /\ UNCHANGED notLB

UserRegs == {i \in 1..Len(regs) : regs[i].by = "user"}

\* the caller of request registers a listener on the failing stream it got
FailingOn ==
    /\ regs # << >> \/ _closed
    /\ Cardinality(UserRegs) < MaxUserRegs
    /\ Len(regs) < MaxRegs
    /\ \E what \in {"error", "terminate", "response"} :
         regs' = FAILING_STREAM_on(regs, what, "user")
    /\ UNCHANGED <<_factories, _sockets, _pendings, _outstandings, _isReady,
                   _closed, _targetAperture, _minAperture, _maxAperture,
                   initialAperture, refreshed, _refreshTimer, building, built,
                   sockFactory, sockClose, sockState, sockTold, sockPending, nadd, nremove>>
    /\ UNCHANGED notLB

\* the oldest setImmediate of FAILING_STREAM.on runs: f(EMPTY_LB_ERROR)
RunImmediate ==
    /\ \E i \in 1..Len(regs) :
         /\ regs[i].pending
         /\ \A j \in 1..(i - 1) : ~regs[j].pending
         /\ regs' = [regs EXCEPT ![i] = [@ EXCEPT !.pending = FALSE,
                                                  !.calls = @ + 1,
                                                  !.arg = EMPTY_LB_ERROR]]
         /\ _outstandings' = IF regs[i].by = "lb" THEN _outstandings - 1
                             ELSE _outstandings
    /\ UNCHANGED <<_factories, _sockets, _pendings, _isReady, _closed,
                   _targetAperture, _minAperture, _maxAperture, initialAperture,
                   refreshed, _refreshTimer, building, built, sockFactory,
                   sockClose, sockState, sockTold, sockPending, nadd, nremove>>
    /\ UNCHANGED notLB

Member(s) == s \in Range(_sockets)

\* a socket emits 'error': the listener of _addSocket runs
SocketError ==
    /\ \E s \in SocketIds :
         /\ sockState[s] = "open"
         /\ sockState' = [sockState EXCEPT ![s] = "errored"]
         /\ CommitLB(prototype_removeSocket(LB(FALSE), s))
    /\ UNCHANGED <<_outstandings, _isReady, _closed, _minAperture, _maxAperture,
                   initialAperture, _refreshTimer, built, sockFactory, sockTold,
                   sockPending, regs, nadd, nremove>>
    /\ UNCHANGED notLB

\* a socket emits 'close': the listener of _addSocket runs if it is still
\* attached
SocketClose ==
    /\ \E s \in SocketIds :
         /\ sockState[s] \in {"open", "errored"}
         /\ sockState' = [sockState EXCEPT ![s] = "closed"]
         /\ IF sockClose[s] /\ ~_closed
            THEN CommitLB(prototype_removeSocket(LB(FALSE), s))
            ELSE CommitLB(LB(FALSE))
    /\ UNCHANGED <<_outstandings, _isReady, _closed, _minAperture, _maxAperture,
                   initialAperture, _refreshTimer, built, sockFactory, sockTold,
                   sockPending, regs, nadd, nremove>>
    /\ UNCHANGED notLB

\* refreshConnection, the callback of the interval of _ready
RefreshTick ==
    /\ _refreshTimer
    /\ ~_closed /\ Len(_sockets) > 0 /\ Len(_factories) > 0
    /\ \E due \in Dues, sp \in SocketPicks, fp \in FactoryIds :
         CommitLB(_removeSocket(LB(due), p3c(_sockets, sp), sp, fp))
    /\ UNCHANGED <<_outstandings, _isReady, _closed, _minAperture, _maxAperture,
                   initialAperture, _refreshTimer, built, sockFactory, sockState,
                   sockTold, sockPending, regs,
                   nadd, nremove>>
    /\ UNCHANGED notLB

\* LoadBalancer.close(cb)
LBClose ==
    /\ ~_closed
    /\ _closed' = TRUE
    /\ _refreshTimer' = FALSE
    /\ sockTold' = [s \in SocketIds |-> sockTold[s] \/ Member(s)]
    /\ UNCHANGED <<_factories, _sockets, _pendings, _outstandings, _isReady,
                   _targetAperture, _minAperture, _maxAperture, initialAperture,
                   refreshed, building, built, sockFactory, sockClose, sockState,
                   sockPending, regs, nadd, nremove>>
    /\ UNCHANGED notLB

\* a LoadBalancer whose sockets stay up and whose factories stay, and the
\* callers of its failing stream
NextFailing ==
    \/ SourceAdd
    \/ BuildOk
    \/ BuildFail
    \/ LBRequest
    \/ StreamTerminate
    \/ FailingOn
    \/ RunImmediate
    \/ LBClose

NextLB ==
    \/ SourceAdd
    \/ SourceRemove
    \/ BuildOk
    \/ BuildFail
    \/ LBRequest
    \/ StreamTerminate
    \/ RunImmediate
    \/ SocketError
    \/ SocketClose
    \/ RefreshTick
    \/ LBClose

\* a LoadBalancer whose factories are slow to build, under requests
NextAperture ==
    \/ FactoryAdd
    \/ SourceRemove
    \/ BuildOk
    \/ BuildFail
    \/ LBRequest
    \/ StreamTerminate
    \/ RunImmediate
    \/ RefreshTick

\* -------------------------------------------------------- TcpLoadBalancer
HostIds == 1..MaxHosts
ConnIds == 1..MaxConns

\* a TcpConnection: the host it dials, the object it got as connOpts, how far
\* it is, whether the pool called close on it, whether the 'close' listener
\* is off its socket (deaf) and whether one is on its RS connection (hooked)
NoConn == [host |-> 0, ref |-> "none", phase |-> "none", told |-> FALSE,
           deaf |-> FALSE, hooked |-> FALSE]

\* the fields of the TcpLoadBalancer and its connections as one value
TcpOf(hosts, size) ==
    [hosts |-> hosts, updated |-> FALSE, size |-> size,
     free |-> [h \in HostIds |-> IF h \in hosts THEN "orig" ELSE "none"],
     connecting |-> [h \in HostIds |-> 0],
     connected |-> [h \in HostIds |-> -1],
     conns |-> [c \in ConnIds |-> NoConn], nconn |-> 0, ready |-> FALSE,
     allConnected |-> FALSE, closed |-> FALSE, emitted |-> FALSE,
     thrown |-> FALSE]

Tcp ==
    [hosts |-> _hosts, updated |-> updated, size |-> _size, free |-> free,
     connecting |-> connecting, connected |-> connected, conns |-> conns,
     nconn |-> nconn, ready |-> tcpReady, allConnected |-> tcpConnected,
     closed |-> tcpClosed, emitted |-> tcpEmitted, thrown |-> FALSE]

CommitTcp(t) ==
    /\ _hosts' = t.hosts
    /\ updated' = t.updated
    /\ _size' = t.size
    /\ free' = t.free
    /\ connecting' = t.connecting
    /\ connected' = t.connected
    /\ conns' = t.conns
    /\ nconn' = t.nconn
    /\ tcpReady' = t.ready
    /\ tcpConnected' = t.allConnected
    /\ tcpClosed' = t.closed
    /\ tcpEmitted' = t.emitted

\* _.keys of the three maps
FreeKeys(t) == {h \in HostIds : t.free[h] # "none"}
ConnectingKeys(t) == {h \in HostIds : t.connecting[h] # 0}
ConnectedKeys(t) == {h \in HostIds : t.connected[h] # -1}

_getActiveConnCount(t) ==
    Cardinality(ConnectedKeys(t)) + Cardinality(ConnectingKeys(t))

\* _.sample(free): pick when it is free, else the other free host
sample(t, pick) ==
    IF pick \in FreeKeys(t) THEN pick
    ELSE CHOOSE h \in FreeKeys(t) : \A g \in FreeKeys(t) : h <= g

\* _connect up to the two listeners it registers
_connect(t, pick) ==
    IF _getActiveConnCount(t) >= t.size THEN t
    ELSE IF FreeKeys(t) = {} THEN t
    ELSE LET h == sample(t, pick)
             c == t.nconn + 1
         IN  [t EXCEPT !.free[h] = "none",
                       !.connecting[h] = c,
                       !.conns[c] = [host |-> h, ref |-> t.free[h],
                                     phase |-> "dialing", told |-> FALSE,
                                     deaf |-> FALSE, hooked |-> FALSE],
                       !.nconn = c]

RECURSIVE connectTimes(_, _, _)
connectTimes(t, n, pick) ==
    IF n <= 0 THEN t ELSE connectTimes(_connect(t, pick), n - 1, pick)

\* _.includes(self._hosts, connOpts): connOpts is one of the objects of _hosts
\* only when it is an object of the constructor's clone and _hosts is still
\* that clone
Includes(t, ref) == ~t.updated /\ ref = "orig"

\* the 'close' listener _connect puts on connection c
onConnClose(t, c, pick) ==
    LET h == t.conns[c].host
        a == [t EXCEPT !.connecting[h] = 0, !.connected[h] = -1]
        b == IF Includes(a, a.conns[c].ref)
             THEN [a EXCEPT !.free[h] = a.conns[c].ref] ELSE a
    IN  IF b.closed
        THEN IF ConnectingKeys(b) = {} /\ ConnectedKeys(b) = {}
             THEN [b EXCEPT !.emitted = TRUE] ELSE b
        ELSE IF _getActiveConnCount(b) < b.size THEN _connect(b, pick) ELSE b

\* the 'ready' listener _connect puts on connection c
onConnReady(t, c) ==
    LET h == t.conns[c].host
        a == [t EXCEPT !.connected[h] = t.connecting[h], !.connecting[h] = 0]
        b == [a EXCEPT !.ready = TRUE]
    IN  IF ~b.allConnected /\ Cardinality(ConnectedKeys(b)) = b.size
        THEN [b EXCEPT !.allConnected = TRUE] ELSE b

\* TcpConnection.close: _rsConnection is null until the socket has connected,
\* so the call throws after it has removed the socket's 'close' listener
tcpConnectionClose(t, c) ==
    IF t.conns[c].phase = "dialing"
    THEN [t EXCEPT !.conns[c].told = TRUE, !.conns[c].deaf = TRUE,
                   !.thrown = TRUE]
    ELSE [t EXCEPT !.conns[c].told = TRUE, !.conns[c].deaf = TRUE,
                   !.conns[c].hooked = TRUE]

\* the third forEach of updateHosts over the dead hosts, in the order of the
\* host list; a throw ends it
RECURSIVE closeDead(_, _)
closeDead(t, dead) ==
    IF dead = {} \/ t.thrown THEN t
    ELSE LET h == CHOOSE x \in dead : \A y \in dead : x <= y
             a == IF t.connecting[h] # 0
                  THEN tcpConnectionClose(t, t.connecting[h])
                  ELSE IF t.connected[h] > 0
                  THEN tcpConnectionClose(t, t.connected[h])
                  ELSE t
         IN  closeDead(a, dead \ {h})

updateHosts(t, hosts, pick) ==
    LET prevHosts == t.hosts
        newHosts == hosts \ prevHosts
        deadHosts == prevHosts \ hosts
        a == [t EXCEPT !.hosts = hosts, !.updated = TRUE,
                       !.free = [h \in HostIds |->
                                   IF h \in deadHosts THEN "none"
                                   ELSE IF h \in newHosts THEN "arg"
                                   ELSE @[h]]]
        b == closeDead(a, deadHosts)
        additionalConnCount == b.size - _getActiveConnCount(b)
    IN  IF b.thrown \/ additionalConnCount <= 0 THEN b
        ELSE connectTimes(b, Min(additionalConnCount,
                                 Cardinality(FreeKeys(b))), pick)

\* the TcpLoadBalancer the constructor returns
TcpLoadBalancer(hosts, size, pick) ==
    connectTimes(TcpOf(hosts, size), size, pick)

InitTcpWith(hostSets, sizes) ==
    \E hosts \in hostSets, size \in sizes, pick \in HostIds :
        LET t == TcpLoadBalancer(hosts, size, pick)
        IN  /\ _hosts = t.hosts
            /\ updated = t.updated
            /\ _size = t.size
            /\ free = t.free
            /\ connecting = t.connecting
            /\ connected = t.connected
            /\ conns = t.conns
            /\ nconn = t.nconn
            /\ tcpReady = t.ready
            /\ tcpConnected = t.allConnected
            /\ tcpClosed = t.closed
            /\ tcpEmitted = t.emitted
            /\ nupdate = 0
            /\ got = [kind |-> "none", conn |-> 0]

InitTcp == InitTcpWith(SUBSET HostIds, 1..MaxSize)
\* the TcpLoadBalancer of the specifications of the other components
InitTcpIdle == InitTcpWith({{1}}, {1})

FitsTcp(t) == t.nconn <= MaxConns

\* the socket of a TcpConnection emits 'connect'
SocketConnect ==
    /\ \E c \in ConnIds :
         /\ conns[c].phase = "dialing"
         /\ conns' = [conns EXCEPT ![c].phase = "setup"]
    /\ UNCHANGED <<_hosts, updated, _size, free, connecting, connected, nconn,
                   tcpReady, tcpConnected, tcpClosed, tcpEmitted, nupdate, got>>
    /\ UNCHANGED notTcp

\* a TcpConnection emits 'ready'
ConnReady ==
    /\ \E c \in ConnIds :
         /\ conns[c].phase = "setup"
         /\ CommitTcp(onConnReady([Tcp EXCEPT !.conns[c].phase = "ready"], c))
    /\ UNCHANGED <<nupdate, got>>
    /\ UNCHANGED notTcp

\* a TcpConnection emits 'close': its socket closed while the listener was
\* on it, or its RS connection closed after TcpConnection.close
ConnClose ==
    /\ \E c \in ConnIds, pick \in HostIds :
         /\ conns[c].phase \in {"dialing", "setup", "ready"}
         /\ ~conns[c].deaf \/ conns[c].hooked
         /\ LET t == onConnClose([Tcp EXCEPT !.conns[c].phase = "closed"],
                                 c, pick)
            IN  FitsTcp(t) /\ CommitTcp(t)
    /\ UNCHANGED <<nupdate, got>>
    /\ UNCHANGED notTcp

\* TcpLoadBalancer.updateHosts(hosts)
UpdateHosts ==
    /\ nupdate < MaxUpdates
    /\ nupdate' = nupdate + 1
    /\ \E hosts \in SUBSET HostIds, pick \in HostIds :
         LET t == updateHosts(Tcp, hosts, pick)
         IN  FitsTcp(t) /\ CommitTcp(t)
    /\ UNCHANGED got
    /\ UNCHANGED notTcp

\* TcpLoadBalancer.close: typeof (c) is a string, never TcpConnection, so no
\* connection is closed
TcpLoadBalancerClose ==
    /\ ~tcpClosed
    /\ tcpClosed' = TRUE
    /\ UNCHANGED <<_hosts, updated, _size, free, connecting, connected, conns,
                   nconn, tcpReady, tcpConnected, tcpEmitted, nupdate, got>>
    /\ UNCHANGED notTcp

EFFORT == 5

Thrown == [kind |-> "throw", conn |-> 0]
Null == [kind |-> "null", conn |-> 0]
Conn(c) == [kind |-> "conn", conn |-> c]

\* _.values(self._connections.connected), in the order of the keys
RECURSIVE Values(_, _)
Values(t, keys) ==
    IF keys = {} THEN << >>
    ELSE LET h == CHOOSE x \in keys : \A y \in keys : x <= y
         IN  <<t.connected[h]>> \o Values(t, keys \ {h})

\* the for loop of p2c from iteration e on, and the choice after it: r1[e] and
\* r2[e] are the values Math.random gives i1 and i2, av the availability of
\* each entry's connection.  An entry that is undefined has no getConnection.
RECURSIVE p2cLoop(_, _, _, _, _, _, _)
p2cLoop(vals, r1, r2, av, e, conn1, conn2) ==
    IF e > EFFORT
    THEN IF conn2 = 0 THEN Conn(vals[conn1])
         ELSE IF av[conn1] > av[conn2] THEN Conn(vals[conn1])
         ELSE Conn(vals[conn2])
    ELSE LET i1 == r1[e]
             i2 == IF r2[e] >= i1 THEN r2[e] + 1 ELSE r2[e]
         IN  IF vals[i1 + 1] = 0 \/ vals[i2 + 1] = 0 THEN Thrown
             ELSE IF av[i1 + 1] > 0 /\ av[i2 + 1] > 0
             THEN p2cLoop(vals, r1, r2, av, EFFORT + 1, i1 + 1, i2 + 1)
             ELSE p2cLoop(vals, r1, r2, av, e + 1, i1 + 1, i2 + 1)

\* p2c, the default strategy: with one connection it reads the property
\* connected of the array of values, which is undefined, and throws
p2c(t, r1, r2, av) ==
    LET availableConnections == Values(t, ConnectedKeys(t))
        n == Len(availableConnections)
    IN  IF n = 0 THEN Null
        ELSE IF n = 1 THEN Thrown
        ELSE p2cLoop(availableConnections, r1, r2, av, 1, 0, 0)

\* TcpLoadBalancer.getConnection with the default strategy
GetConnection ==
    /\ LET n == Cardinality(ConnectedKeys(Tcp))
       IN  \E r1 \in [1..EFFORT -> 0..Max(0, n - 1)],
              r2 \in [1..EFFORT -> 0..Max(0, n - 2)],
              av \in [1..n -> 0..1] :
               got' = p2c(Tcp, r1, r2, av)
    /\ UNCHANGED <<_hosts, updated, _size, free, connecting, connected, conns,
                   nconn, tcpReady, tcpConnected, tcpClosed, tcpEmitted,
                   nupdate>>
    /\ UNCHANGED notTcp

NextPick ==
    \/ SocketConnect
    \/ ConnReady
    \/ ConnClose
    \/ GetConnection

NextTcp ==
    \/ SocketConnect
    \/ ConnReady
    \/ ConnClose
    \/ UpdateHosts
    \/ TcpLoadBalancerClose

vars == <<connVars, clientVars, drainVars, lbVars, tcpVars, restVars>>

\* the initial state of every component, the LoadBalancer with the default
\* options; and with each of the option values
InitIdle ==
    InitDrain /\ InitLBIdle /\ InitTcpIdle /\ InitServerIdle /\ InitMedianIdle
    /\ InitFramingIdle
Init == InitConn /\ InitExtra /\ InitClientIdle /\ InitIdle
InitOptions ==
    /\ InitConn /\ InitExtra /\ InitClientIdle /\ InitDrain /\ InitLB /\ InitTcpIdle
    /\ InitServerIdle /\ InitMedianIdle /\ InitFramingIdle
\* a LoadBalancer made with initialAperture 4 and minAperture 1
InitApertures ==
    /\ InitConn /\ InitExtra /\ InitClientIdle /\ InitDrain /\ InitLBWith({<<4, 1, 0>>})
    /\ InitTcpIdle /\ InitServerIdle /\ InitMedianIdle /\ InitFramingIdle
InitPools ==
    /\ InitConn /\ InitExtra /\ InitClientIdle /\ InitDrain /\ InitLBIdle /\ InitTcp
    /\ InitServerIdle /\ InitMedianIdle /\ InitFramingIdle
\* a server connection, with each of the listeners an application may put on it
InitServers ==
    /\ InitConn /\ InitExtra /\ InitClientIdle /\ InitDrain /\ InitLBIdle /\ InitTcpIdle
    /\ InitServerWith({"none", "error", "setup-error"}) /\ InitMedianIdle
    /\ InitFramingIdle
\* a SlidingMedian of each window size
InitMedians ==
    /\ InitConn /\ InitExtra /\ InitClientIdle /\ InitDrain /\ InitLBIdle /\ InitTcpIdle
    /\ InitServerIdle /\ InitMedian /\ InitFramingIdle
\* a FramingStream in front of each of the byte streams
InitFramings ==
    /\ InitConn /\ InitExtra /\ InitClientIdle /\ InitDrain /\ InitLBIdle /\ InitTcpIdle
    /\ InitServerIdle /\ InitMedianIdle /\ InitFraming
\* a client connection that has allocated no id, or all but the last one
InitIds ==
    InitConn /\ InitExtra /\ InitClientWith({0, MAX_STREAM_ID - 3}, {FALSE}) /\ InitIdle
\* a client connection made with or without opts.lease
InitLeases == InitConn /\ InitExtra /\ InitClientWith({0}, BOOLEAN) /\ InitIdle

SpecConn == Init /\ [][NextConn]_vars
SpecFilter == Init /\ [][NextFilter]_vars
SpecDrain == Init /\ [][NextDrain]_vars
SpecLB == InitOptions /\ [][NextLB]_vars
SpecFailing == Init /\ [][NextFailing]_vars
SpecFragments == Init /\ [][NextFragments]_vars
SpecResponder == InitServers /\ [][NextResponder]_vars
SpecRetry == Init /\ [][NextRetry]_vars
SpecAperture == InitApertures /\ [][NextAperture]_vars
SpecTcp == InitPools /\ [][NextTcp]_vars
SpecIds == InitIds /\ [][NextConn]_vars
SpecClient == InitLeases /\ [][NextClient]_vars
SpecServer == InitServers /\ [][NextServer]_vars
SpecPick == InitPools /\ [][NextPick]_vars
SpecMedian == InitMedians /\ [][NextMedian]_vars
SpecFraming == InitFramings /\ [][NextFraming]_vars
SpecAccrual == Init /\ [][NextAccrual]_vars
\* p3c on a list of each length
InitLists == InitConn /\ InitExtraWith(3..MaxList) /\ InitClientIdle /\ InitIdle
SpecP3c == InitLists /\ [][NextP3c]_vars


\* ------------------------------------------------------------------ claims
Names(log) == [i \in 1..Len(log) |-> log[i].name]
Count(log, n) == Cardinality({i \in 1..Len(log) : log[i].name = n})

TerminalEvents == {"response", "timeout", "cancel", "error", "setup-error",
                   "connection-error", "application-error", "rejected-error",
                   "cancelled-error", "invalid-error", "reserved-error"}

\* C1: a request stream has emitted nothing yet, or exactly one terminal event
\* followed by exactly one 'terminate' and nothing after it.
C1_OneTerminalThenTerminate ==
    \A id \in ReqIds :
        LET ns == Names(events[id])
        IN  \/ ns = << >>
            \/ Len(ns) = 2 /\ ns[1] \in TerminalEvents /\ ns[2] = "terminate"

\* C5: the step in which the timer of a request fires, no response or error
\* frame having cleared it, hands a CANCEL frame with the stream's id to send,
\* emits 'timeout' and then 'terminate' on the stream and leaves the id out of
\* the stream table.
C5_TimeoutCancels ==
    [][\A id \in ReqIds :
         (timer[id] = "armed" /\ timer'[id] = "fired") =>
             /\ sent'[id] = Append(sent[id], "CANCEL")
             /\ Names(events'[id]) = Names(events[id]) \o <<"timeout", "terminate">>
             /\ streams'[id] = "none"]_vars

C5_Witness == \E id \in ReqIds : timer[id] = "fired" /\ expired[id]

\* C6: once the transport has closed, every stream that was in the table then,
\* the setup stream excepted, has emitted 'error' with the transport's error
\* (the generic one when none was recorded) and then 'terminate'.
C6_CloseErrorsEveryStream ==
    tclosed =>
        \A id \in atClose \ {0} :
            \E i \in 1..(Len(events[id]) - 1) :
                /\ events[id][i] = Ev("error", IF terr = NoError
                                                 THEN ClosedError ELSE terr)
                /\ events[id][i + 1].name = "terminate"

\* C7: a proxy stream of the ReEnqueueFilter emits 'terminate' at most once.
C7_ProxyTerminatesOnce ==
    \A p \in Proxies : Count(plog[p], "terminate") <= 1

\* C3: once close has been deferred because requests were outstanding, the
\* inner close is performed at most once, whatever the order of terminations,
\* drain timeouts and further deferred close calls (no request is made and
\* close is not called again after the drain).
C3_InnerCloseOnce ==
    (dDeferred >= 0 /\ ~dOutside) => dInner - dDeferred <= 1

\* C4: from the deferred close until the inner close, availability() is 0.
C4_DrainingUnavailable == dWaiting => DrainingAvailability = 0

\* C2 as stated: the target aperture lies between the minimum and the maximum.
C2_ApertureWithinMinMax ==
    _minAperture <= _targetAperture /\ _targetAperture <= _maxAperture

\* C2, amended: the target aperture lies between the lesser of the minimum and
\* the initial aperture and the greater of the maximum and the initial
\* aperture, so between minimum and maximum whenever the initial one does.
C2_ApertureWithinHull ==
    /\ Min(_minAperture, initialAperture) <= _targetAperture
    /\ _targetAperture <= Max(_maxAperture, initialAperture)

C2_Witness ==
    /\ initialAperture < _minAperture
    /\ initialAperture < _targetAperture

\* C8: a request that finds no socket to select returns the failing stream;
\* a listener of 'error' or 'terminate' on the failing stream is not called
\* when it is registered and is called exactly once with the 'Empty
\* Loadbalancer' error, by a setImmediate; a listener of 'response' is never
\* called.
DeliveredOnce(r) ==
    IF r.what \in {"error", "terminate"}
    THEN /\ r.calls + (IF r.pending THEN 1 ELSE 0) = 1
         /\ r.calls = 1 => r.arg = EMPTY_LB_ERROR
    ELSE r.calls = 0 /\ ~r.pending

\* request returned the failing stream: its 'terminate' listener is the last
\* registration on the failing stream and no socket got a request
ReturnedFailing ==
    /\ Len(regs') = Len(regs) + 1
    /\ regs'[Len(regs')].by = "lb"
    /\ sockPending' = sockPending

C8_EmptyFailsAsync ==
    /\ [](\A i \in 1..Len(regs) : DeliveredOnce(regs[i]))
    /\ [][/\ (_outstandings' = _outstandings + 1 /\ _sockets' = << >>)
                 => ReturnedFailing
          /\ Len(regs') > Len(regs) => regs'[Len(regs')].calls = 0]_vars

C8_Witness ==
    /\ _sockets = << >> /\ ~_closed
    /\ \E i, j, k \in 1..Len(regs) :
         /\ regs[i].by = "user" /\ regs[i].what = "error" /\ regs[i].calls = 1
         /\ regs[j].by = "user" /\ regs[j].what = "terminate" /\ regs[j].calls = 1
         /\ regs[k].by = "lb" /\ regs[k].calls = 1

\* C9: while the LoadBalancer is open, a socket that has emitted 'error' or
\* 'close' is not in the socket list.
C9_FailedSocketRemoved ==
    ~_closed => \A s \in SocketIds :
                   sockState[s] \in {"errored", "closed"} => ~Member(s)

\* C10: a call of updateHosts leaves no host that is absent from the new list
\* in free, and every connection that is connecting or connected to such a
\* host has been told to close; and whenever every connection that was told
\* to close has emitted 'close', free, connecting and connected hold no host
\* outside the current host list.
Stale(h) == free[h] # "none" \/ connecting[h] # 0 \/ connected[h] # -1
Draining == \E c \in ConnIds : conns[c].told /\ conns[c].phase # "closed"

C10_DeadHostsLeave ==
    /\ []((updated /\ ~Draining) => \A h \in HostIds \ _hosts : ~Stale(h))
    /\ [][nupdate' = nupdate + 1 =>
            \A h \in HostIds \ _hosts' :
                /\ free'[h] = "none"
                /\ connecting'[h] # 0 => conns'[connecting'[h]].told
                /\ connected'[h] > 0 => conns'[connected'[h]].told]_vars

\* C11: the call of TcpLoadBalancer.close leaves every connection that is in
\* connecting or in connected told to close.
C11_CloseTearsDown ==
    [][(~tcpClosed /\ tcpClosed') =>
          \A h \in HostIds :
              /\ connecting'[h] # 0 => conns'[connecting'[h]].told
              /\ connected'[h] > 0 => conns'[connected'[h]].told]_vars

\* C12: on a client connection made with lease, availability() is 1.0 exactly
\* when the remaining lease budget is above 0 and the time is strictly before
\* the lease expiry, and 0.0 in every other state.
C12_LeaseAvailability ==
    optsLease =>
        (availability = 1 <=> (leaseN > 0 /\ now < _leaseExpirationDate))

\* C13: on a client connection made without lease, availability() is 1.0
\* while the transport is live, also when no LEASE frame was ever received.
C13_NoLeaseAvailable ==
    (~optsLease /\ ~tclosed /\ ~ended) => availability = 1

\* C15: each id a client connection allocates for a request is the previous
\* one plus 2 (2 for the first), is even, was not given out before, also when
\* the earlier stream was deleted, and is at most MAX_STREAM_ID.
C15_StreamIds ==
    /\ [](\A id \in ReqIds :
            Cardinality({i \in 1..Len(sent[id]) :
                           sent[id][i] = "REQUEST_RESPONSE"}) <= 1)
    /\ [][latest' # latest =>
            /\ latest' = latest + 2
            /\ ((idBase % 2) + (latest' % 2)) % 2 = 0
            /\ sent[latest'] = << >>
            /\ latest' <= MAX_STREAM_ID - idBase]_vars

C15_Witness == idErr /\ latest = 2 /\ streams[2] = "none"

\* C17: once close() was called on a client connection, the keepalive ticker
\* sends no KEEPALIVE frame.
C17_CloseStopsTicker ==
    [][Len(sent'[0]) > Len(sent[0]) => ~ended]_vars

\* C14: a server connection accepts the first SETUP frame it receives; each
\* later SETUP frame raises a REJECTED_SETUP setup error and leaves the
\* version, the keepalive and the encodings of the first SETUP as they are.
C14_FirstSetupOnly ==
    [][nsetup' = nsetup + 1 =>
          IF nsetup = 0
          THEN _isSetup'
          ELSE /\ srvLog'[Len(srvLog')].arg.errorCode = "REJECTED_SETUP"
               /\ UNCHANGED <<_isSetup, _version, _keepalive,
                              _metadataEncoding, _dataEncoding>>]_vars

C14_Witness ==
    /\ nsetup >= 2
    /\ _isSetup
    /\ srvLog[Len(srvLog)].name = "setup-error"

\* C16: the inner close is performed only when no request issued through the
\* DrainingReactiveSocket is still without its 'terminate', or by the drain
\* timeout set when close was requested.
C16_NoCloseWhileOutstanding ==
    [][(dInner' > dInner /\ (dPendings' # dPendings \/ dCloseN' # dCloseN)) =>
          \A s \in DrainReqs : dStreams'[s] # "live"]_vars

\* C18: a call of getConnection() with the default strategy returns null when
\* the connected set is empty, and otherwise the connection of an entry of
\* the connected set.
C18_PicksConnected ==
    [][got' # got =>
          IF ConnectedKeys(Tcp) = {}
          THEN got' = Null
          ELSE /\ got'.kind = "conn"
               /\ \E h \in ConnectedKeys(Tcp) : connected[h] = got'.conn]_vars

\* C19: after k >= 1 inserts of one value v into an empty SlidingMedian of
\* any window size, also for k above the window size and above twice the
\* window size, estimate() is v; with no insert, estimate() is 0.
C19_SameValueMedian ==
    /\ inserted = << >> => estimate(Median) = 0
    /\ \A v \in 1..MaxValue :
           (inserted # << >> /\ \A i \in 1..Len(inserted) : inserted[i] = v)
               => estimate(Median) = v

C19_Witness ==
    /\ Len(inserted) > 2 * smSize
    /\ smSize > 1
    /\ \A i \in 1..Len(inserted) : inserted[i] = 2

\* C20: however the transport cuts the byte stream into chunks, FramingStream
\* emits the original frames, in order and one buffer per frame, each buffer
\* beginning with its own length prefix and holding exactly that many bytes;
\* once every byte has arrived every frame has been emitted.
C20_FramesReassembled ==
    /\ ~failed
    /\ Len(pushed) <= Len(frames)
    /\ \A i \in 1..Len(pushed) :
         /\ pushed[i] = frames[i]
         /\ readUInt32BE(pushed[i], 0) = Len(pushed[i])
    /\ delivered = Len(wire) => pushed = frames

\* two frames of different lengths emitted, and the chunk that completed them
\* ended inside the length prefix of the third
C20_Witness ==
    /\ Len(frames) = 3
    /\ Len(pushed) = 2
    /\ buffered /\ _frameLength = 0 /\ _pos \in 1..3
    /\ delivered = Len(frames[1]) + Len(frames[2]) + _pos
    /\ Len(frames[1]) # Len(frames[2])


\* C21: in every state each host of the current host list of the
\* TcpLoadBalancer is a key of exactly one of free, connecting and connected,
\* and no host is a key of two of them.
InSets(h) ==
    (IF free[h] # "none" THEN 1 ELSE 0) + (IF connecting[h] # 0 THEN 1 ELSE 0)
        + (IF connected[h] # -1 THEN 1 ELSE 0)

C21_ExactlyOneSet ==
    \A h \in HostIds : InSets(h) <= 1 /\ (h \in _hosts => InSets(h) = 1)


\* C22: when a dialed connection closes while its endpoint is in the current
\* host list, the close handler leaves the endpoint in free or dials it again
\* at once; also when updateHosts was called since the connection was dialed.
C22_ClosedEndpointFreed ==
    [][\A c \in ConnIds :
          (/\ conns[c].phase # "closed"
           /\ conns'[c].phase = "closed"
           /\ conns[c].host \in _hosts)
          => \/ free'[conns[c].host] # "none"
             \/ connecting'[conns[c].host] # 0]_vars


\* C23: in every state of a LoadBalancer the sockets and the pending builds
\* together are at most one more than the target aperture.
C23_WithinAperture == Len(_sockets) + _pendings <= _targetAperture + 1


\* C24: once a request stream has expired by timeout, no frame that arrives
\* later for its id adds an event to the caller's stream, and the stream table
\* has no entry for the id.
C24_LateFramesDiscarded ==
    /\ [](\A id \in ReqIds : expired[id] => streams[id] = "none")
    /\ [][\A id \in ReqIds : expired[id] => events'[id] = events[id]]_vars


\* C25: when the last of several RESPONSE frames arrives for a request that
\* has not expired, the frames before it all carrying FOLLOWS, the requester's
\* stream emits 'response' and then 'terminate' at that frame, its first
\* 'response', and the data a listener reads is the data of all the frames
\* joined in the order of arrival.
RECURSIVE DataOf(_)
DataOf(fs) == IF fs = << >> THEN << >> ELSE <<Head(fs).data>> \o DataOf(Tail(fs))

LastFragment(id) ==
    /\ Len(rcvd'[id]) = Len(rcvd[id]) + 1
    /\ Len(rcvd[id]) >= 1
    /\ \A i \in 1..Len(rcvd[id]) : rcvd[id][i].follows
    /\ ~rcvd'[id][Len(rcvd'[id])].follows
    /\ ~expired[id]

C25_FragmentsJoined ==
    [][\A id \in ReqIds :
          LastFragment(id) =>
              /\ events'[id] = events[id] \o <<Ev("response", SelfArg),
                                               Ev("terminate", SelfArg)>>
              /\ \A i \in 1..Len(events[id]) : events[id][i].name # "response"
              /\ seen'[id] = DataOf(rcvd'[id])]_vars


\* C26: on the requester's and on the responder's connection a stream whose
\* exchange has reached its terminal transition (response, error, cancel or
\* timeout) is not in the stream table, so that the table holds only the
\* setup stream 0 once every exchange has completed.
Completed(id) ==
    \E i \in 1..Len(events[id]) : events[id][i].name = "terminate"

C26_TerminalStreamsDeleted ==
    /\ \A id \in ReqIds : rstate[id] \in Terminal => rstreams[id] = "none"
    /\ \A id \in ReqIds : Completed(id) => streams[id] = "none"


\* C27: when a retryable error reaches the ReEnqueueFilter for a request, the
\* request is issued again only if the attempts made for it so far are fewer
\* than the maximum, and exactly then while the re-enqueue rate is zero;
\* otherwise the error is emitted on the proxy stream and nothing is sent.  So
\* no request is sent to the inner socket more than maxReEnqueue times.
AttemptsOf(p) == {id \in Slots : owner[id] = p}

Reissued == latest' = latest + 2

C28_RemovedFactoryStaysOut ==
    /\ [](\A f \in gone :
            /\ f \notin Range(_factories)
            /\ \A s \in Range(_sockets) : sockFactory[s] # f)
    /\ [][\A f \in gone \cap gone' : building'[f] <= building[f]]_vars


\* --- FailureAccrualSocket: the samples of one stream
\* the closure of FailureAccrualSocket's request(): the two flags and the
\* samples its listeners have inserted into _failureAccrualEwma
InitAccrualStream ==
    [responseReceived |-> FALSE, terminateReceived |-> FALSE, inserted |-> << >>]

\* the 'response' listener
onResponse(a) ==
    IF ~a.terminateReceived
    THEN [a EXCEPT !.responseReceived = TRUE, !.inserted = Append(@, 1)]
    ELSE a

\* the 'terminate' listener
onNonResponse(a) ==
    IF ~a.responseReceived
    THEN [a EXCEPT !.terminateReceived = TRUE, !.inserted = Append(@, 0)]
    ELSE a

\* the listeners run over the events a stream has emitted, in order
RECURSIVE accrue(_, _)
accrue(a, evs) ==
    IF evs = << >> THEN a
    ELSE accrue(IF Head(evs).name = "response" THEN onResponse(a)
                ELSE IF Head(evs).name = "terminate" THEN onNonResponse(a)
                ELSE a,
                Tail(evs))

Samples(evs) == accrue(InitAccrualStream, evs).inserted

\* C29: over its lifetime a stream issued through a FailureAccrualSocket puts
\* at most one sample into the success EWMA, and once it has terminated
\* exactly one: 1 when it emitted 'response', 0 when it did not.
Responded(id) ==
    \E i \in 1..Len(events[id]) : events[id][i].name = "response"

C29_OneSamplePerStream ==
    \A id \in ReqIds :
        /\ Len(Samples(events[id])) <= 1
        /\ Completed(id) =>
             Samples(events[id]) = <<IF Responded(id) THEN 1 ELSE 0>>


\* C30: a call of availability() resets the Ewma to min(1.0, value + 0.5)
\* only when more than halfLife / ln 2 has passed since the Ewma was last
\* updated (a sample inserted, or the Ewma reset); a call made within that
\* window of the last sample leaves the Ewma unraised.
C30_SnapOnlyAfterWindow ==
    [][(faPolls' = faPolls + 1 /\ faSnapped')
          => faNow - faUpdated > _failureAccrualWindow]_vars


\* C31: once more than _size values have been inserted into a SlidingMedian,
\* its window _buffer[_from.._to) holds exactly the _size values inserted
\* last, each as often as it was inserted, and estimate() is their median,
\* the element at the middle of their sorted order.
LastInserted ==
    SubSeq(inserted, Len(inserted) - smSize + 1, Len(inserted))

TimesIn(seq, v) == Cardinality({i \in 1..Len(seq) : seq[i] = v})

TimesInWindow(v) ==
    Cardinality({i \in _from..(_to - 1) : _buffer[i] = Num(v)})

\* the element at index n \div 2 of the sorted order of a sequence of n values
MedianOf(seq) ==
    CHOOSE v \in 1..MaxValue :
        /\ Cardinality({i \in 1..Len(seq) : seq[i] < v}) <= Len(seq) \div 2
        /\ Cardinality({i \in 1..Len(seq) : seq[i] <= v}) > Len(seq) \div 2

C31_WindowIsLastN ==
    Len(inserted) > smSize =>
        /\ _to - _from = smSize
        /\ \A v \in 1..MaxValue : TimesInWindow(v) = TimesIn(LastInserted, v)
        /\ estimate(Median) = MedianOf(LastInserted)


\* C32: a factory the source has added once is in at most one place: once
\* in _factories, or attached to one pending build, or attached to one
\* socket of _sockets; never listed twice, never listed and attached.
Places(f) ==
    Cardinality({i \in 1..Len(_factories) : _factories[i] = f})
    + building[f]
    + Cardinality({i \in 1..Len(_sockets) : sockFactory[_sockets[i]] = f})

C32_FactoryInOnePlace ==
    \A f \in FactoryIds : adds[f] = 1 => Places(f) <= 1


\* a factory added once was built into a socket, the socket was evicted, and
\* the factory is back in the list
C32_Witness ==
    \E f \in FactoryIds :
        /\ adds[f] = 1
        /\ f \notin gone
        /\ Places(f) = 1
        /\ f \in Range(_factories)
        /\ \E s \in SocketIds : sockFactory[s] = f /\ ~Member(s)


\* C33: the step in which a build of factory f fails takes 1 from _pendings
\* and leaves _factories as it was; and a factory that was added once and
\* whose build has failed (it is in no place, was not removed and has no
\* socket) stays in no place until the source adds it again, so it is not
\* attempted a second time.
BuildFailed(f) ==
    /\ adds[f] = 1
    /\ f \notin gone
    /\ Places(f) = 0
    /\ \A s \in SocketIds : sockFactory[s] # f

C33_FailedFactoryDropped ==
    [][\A f \in FactoryIds :
         /\ (building'[f] < building[f] /\ built' = built)
              => /\ _pendings' = _pendings - 1
                 /\ building'[f] = building[f] - 1
                 /\ _factories' = _factories
         /\ (BuildFailed(f) /\ adds'[f] = adds[f])
              => Places(f)' = 0]_vars

C33_Witness == \E f \in FactoryIds : BuildFailed(f) /\ _pendings = 0 /\ nadd = MaxAdds


\* C34: once close() has been called on a LoadBalancer no build is started,
\* and every socket in _sockets has been told to close, a socket whose build
\* was pending at the call included.
C34_ClosedHoldsNoOpenSocket ==
    /\ [](_closed => \A s \in Range(_sockets) : sockTold[s])
    /\ [][_closed => \A f \in FactoryIds : building'[f] <= building[f]]_vars


\* C35: a socket that leaves _sockets (the aperture shrinks, the refresh
\* interval recycles it, or its factory is removed) has been told to close
\* by the end of that step, so no socket is open outside _sockets untold.
C35_EvictedSocketsClosed ==
    /\ [][\A s \in SocketIds :
            (Member(s) /\ ~Member(s)') => sockTold'[s]]_vars
    /\ [](\A s \in SocketIds :
            (sockState[s] = "open" /\ ~Member(s)) => sockTold[s])


\* C36: once close() has been called on a TcpLoadBalancer no TcpConnection
\* is made, be it by the 'close' listener of a connection or by a later
\* call of updateHosts.
C36_ClosedDialsNothing ==
    [][tcpClosed => nconn' = nconn]_vars


\* C37: while a TcpLoadBalancer is open, between handlers it never has
\* fewer connecting and connected connections than _size while a host is
\* free: the constructor, each 'close' listener and each updateHosts dial
\* until the active count is the smaller of _size and the hosts available.
C37_PoolFilled ==
    ~tcpClosed => ~(_getActiveConnCount(Tcp) < _size /\ FreeKeys(Tcp) # {})


\* C38: every 'response' a stream made through the ReEnqueueFilter emits, a
\* first attempt or a re-issued one, is one call of
\* _reenqueueRate.insert(0.0), and there are no other such calls.
FilterResponses ==
    {<<id, i>> \in Slots \X (1..(2 * MaxStreams)) :
        /\ owner[id] # 0
        /\ i <= Len(events[id])
        /\ events[id][i].name = "response"}

C38_ResponseInsertsZero == zeros = Cardinality(FilterResponses)


\* C39: after every insert(x), one that compacts included, the cells
\* _buffer[_from.._to) all hold numbers, in non-decreasing order, and one of
\* them holds the x just inserted.
WindowSorted ==
    /\ \A i \in _from..(_to - 1) : _buffer[i].def
    /\ \A i \in _from..(_to - 2) : _buffer[i].val <= _buffer[i + 1].val

C39_SortedRunHoldsX ==
    inserted # << >> =>
        /\ WindowSorted
        /\ \E i \in _from..(_to - 1) : _buffer[i] = Num(inserted[Len(inserted)])


\* C40: for every list length n >= 3 and every outcome of the random draws,
\* the three indices of a round of p3c are pairwise distinct and each is in
\* 0..n - 1.
C40_DistinctIndices ==
    p3i # << >> =>
        /\ \A k \in 1..3 : p3i[k] \in 0..(p3n - 1)
        /\ p3i[1] # p3i[2] /\ p3i[1] # p3i[3] /\ p3i[2] # p3i[3]

\* the last index is drawn at its maximum and shifted twice, on the longest list
C40_Witness ==
    /\ p3n = MaxList
    /\ p3i # << >>
    /\ p3i[3] = p3n - 1
    /\ p3i[2] < p3i[1]

====
